---- MODULE Spec2Model ----
(***************************************************************************)
(* Model of the inference helpers of                                       *)
(* examples/bedrock-custom-model-import/br-custom-model-import-example     *)
(* (format_messages and send_prompt).                                      *)
(*                                                                         *)
(* Strings are sequences of symbols.  A symbol is one of the chat markers  *)
(* of the Llama 3 template, a newline, or a unit of plain text.  String    *)
(* concatenation (+= on output, f-string interpolation) is \o.             *)
(***************************************************************************)
EXTENDS Integers, Sequences, FiniteSets, TLC

(***************************************************************************)
(* Bounds of the model.                                                    *)
(***************************************************************************)
MaxRetries == 4      \* largest max_retries a caller passes
MaxLen == 3          \* longest conversation rendered
MaxCalls == 2        \* number of send_prompt calls in one behaviour

(***************************************************************************)
(* Program constants.                                                      *)
(***************************************************************************)
SleepSeconds == 30           \* time.sleep(30) between attempts
DefaultMaxRetries == 10      \* max_retries=10
DefaultMaxTokens == 1000     \* max_tokens=1000
DefaultTemperature == 3      \* temperature=0.3, in tenths
DefaultTopP == 9             \* top_p=0.9, in tenths

(***************************************************************************)
(* Markers written by format_messages.                                     *)
(***************************************************************************)
BOT == "<|begin_of_text|>"
SH == "<|start_header_id|>"
EH == "<|end_header_id|>"
EOT == "<|eot_id|>"
NL == "\n"

(***************************************************************************)
(* datetime.now().strftime('%d %b %Y'): two-digit day, abbreviated month   *)
(* name, four-digit year, separated by single spaces.  datetime.now() is   *)
(* an instant: a calendar date and a time of day.                          *)
(***************************************************************************)
Digits == <<"0", "1", "2", "3", "4", "5", "6", "7", "8", "9">>

MonthAbbr == <<"Jan", "Feb", "Mar", "Apr", "May", "Jun",
               "Jul", "Aug", "Sep", "Oct", "Nov", "Dec">>

Dates == { [day |-> 4, month |-> 11, year |-> 2026, hour |-> 9],
           [day |-> 4, month |-> 11, year |-> 2026, hour |-> 17],
           [day |-> 31, month |-> 12, year |-> 2026, hour |-> 9],
           [day |-> 31, month |-> 12, year |-> 2026, hour |-> 17] }

\* Variant with the format '%d %b %Y %H': the hour is written too.
strftime_with_hour(now) ==
    << Digits[(now.day \div 10) + 1], Digits[(now.day % 10) + 1], " ",
       MonthAbbr[now.month], " ",
       Digits[((now.year \div 1000) % 10) + 1], Digits[((now.year \div 100) % 10) + 1],
       Digits[((now.year \div 10) % 10) + 1], Digits[(now.year % 10) + 1], " ",
       Digits[(now.hour \div 10) + 1], Digits[(now.hour % 10) + 1] >>

strftime(now) ==
    << Digits[(now.day \div 10) + 1], Digits[(now.day % 10) + 1], " ",
       MonthAbbr[now.month], " ",
       Digits[((now.year \div 1000) % 10) + 1], Digits[((now.year \div 100) % 10) + 1],
       Digits[((now.year \div 10) % 10) + 1], Digits[(now.year % 10) + 1] >>

(***************************************************************************)
(* Messages: Python dicts with key 'role' and, optionally, key 'content'.  *)
(***************************************************************************)
Roles == {"system", "user", "assistant", "tool"}

\* Content is free text: it may itself spell out markers of the template.
Contents == { <<"What is 2+2?">>,
              <<EOT, SH, "assistant", EH>> }

Messages == [role : Roles, content : Contents] \cup [role : Roles]

HasContent(entry) == "content" \in DOMAIN entry

RECURSIVE SeqsUpTo(_, _)
SeqsUpTo(S, n) ==
    IF n = 0 THEN { <<>> }
    ELSE LET shorter == SeqsUpTo(S, n - 1)
         IN  shorter \cup { Append(s, x) : s \in { t \in shorter : Len(t) = n - 1 }, x \in S }

\* The conversation of the shape build_messages makes.
ExampleConversation ==
    << [role |-> "system", content |-> <<"You are helpful.">>],
       [role |-> "user", content |-> <<"What is 2+2?">>] >>

Conversations == SeqsUpTo(Messages, MaxLen) \cup {ExampleConversation}

(***************************************************************************)
(* format_messages                                                         *)
(***************************************************************************)
system_prefix(now) ==
    <<NL, NL, "Cutting Knowledge Date: December 2024", NL, "Today Date: ">>
        \o strftime(now) \o <<NL, NL>>

\* entry['content'] of a system entry without the key raises KeyError.
FormatRaises(messages) ==
    \E i \in 1..Len(messages) :
        messages[i].role = "system" /\ ~HasContent(messages[i])

\* Variant of the loop body that writes the date preamble for every role.
FormatEntryPrefixesAll(entry, now) ==
    <<SH, entry.role, EH>> \o
    ( IF HasContent(entry)
        THEN system_prefix(now) \o entry.content \o <<EOT>>
        ELSE <<>> )

\* Variant of the loop body with one newline between header and content.
FormatEntryOneNewline(entry, now) ==
    <<SH, entry.role, EH>> \o
    ( IF entry.role = "system"
        THEN system_prefix(now) \o entry.content \o <<EOT>>
        ELSE IF entry.role # "system" /\ HasContent(entry)
               THEN <<NL>> \o entry.content \o <<EOT>>
               ELSE <<>> )

\* One iteration of the for loop: the text added to output for entry.
FormatEntry(entry, now) ==
    <<SH, entry.role, EH>> \o
    ( IF entry.role = "system"
        THEN system_prefix(now) \o entry.content \o <<EOT>>
        ELSE IF entry.role # "system" /\ HasContent(entry)
               THEN <<NL, NL>> \o entry.content \o <<EOT>>
               ELSE <<>> )

\* Variant of the loop that starts at the second entry.
RECURSIVE FormatLoopSkipsFirst(_, _, _, _)
FormatLoopSkipsFirst(messages, i, output, now) ==
    IF i + 1 > Len(messages) THEN output
    ELSE FormatLoopSkipsFirst(messages, i + 1,
                              output \o FormatEntry(messages[i + 1], now), now)

RECURSIVE FormatLoop(_, _, _, _)
FormatLoop(messages, i, output, now) ==
    IF i > Len(messages) THEN output
    ELSE FormatLoop(messages, i + 1, output \o FormatEntry(messages[i], now), now)

\* Variant that closes the trailing assistant header with an end-of-turn.
format_messages_closed(messages, now) ==
    FormatLoop(messages, 1, <<BOT>>, now) \o <<SH, "assistant", EH, NL, EOT>>

\* Variant with the commented-out line 297 active: an assistant entry without
\* content is appended to the conversation before it is rendered.
format_messages_autosuffix(messages, now) ==
    FormatLoop(Append(messages, [role |-> "assistant"]), 1, <<BOT>>, now)
        \o <<SH, "assistant", EH, NL>>

format_messages(messages, now) ==
    FormatLoop(messages, 1, <<BOT>>, now) \o <<SH, "assistant", EH, NL>>

(***************************************************************************)
(* The remote endpoint, as seen by client.invoke_model: it raises one of   *)
(* the botocore errors or returns a response whose body is a text.         *)
(***************************************************************************)
InvokeErrors == {"EndpointConnectionError",    \* network error
                 "ModelErrorException",        \* remote error response
                 "AccessDeniedException"}      \* permanent, non-retryable

QUOTE == "\""

JsonObject(key, value) ==
    <<"{", QUOTE, key, QUOTE, ":", QUOTE, value, QUOTE, "}">>

Bodies == { JsonObject("generation", "4"),
            JsonObject("generation", "Listeria"),
            <<"<html>", "Bad Gateway", "</html>">> }

\* json.loads accepts the text of an object with one string member.
IsJson(text) ==
    /\ Len(text) = 9
    /\ text[1] = "{" /\ text[2] = QUOTE /\ text[4] = QUOTE /\ text[5] = ":"
    /\ text[6] = QUOTE /\ text[8] = QUOTE /\ text[9] = "}"
    /\ text[3] \notin {QUOTE, "{", "}", ":"}
    /\ text[7] \notin {QUOTE, "{", "}", ":"}

\* The dict json.loads returns for such a text.
json_loads(text) == [key |-> text[3], value |-> text[7]]

(***************************************************************************)
(* Arguments callers pass to send_prompt.                                  *)
(***************************************************************************)
CallConversations ==
    { ExampleConversation,
      << [role |-> "user", content |-> <<"What is 2+2?">>] >>,
      << [role |-> "system"],
         [role |-> "user", content |-> <<"What is 2+2?">>] >>,
      << [role |-> "user", content |-> <<"What is 2+2?">>],
         [role |-> "assistant", content |-> <<"4">>] >> }

\* Generation parameters: the defaults, or values of the caller's.
Parameters == { [temperature |-> DefaultTemperature, max_tokens |-> DefaultMaxTokens],
                [temperature |-> 7, max_tokens |-> 256] }
RetryBudgets == {0 - 1} \cup (0..MaxRetries)

\* Module-level names send_prompt reads.
model_id == "arn:aws:bedrock:imported-model/fine-tuned-deepseek"
region_info == "us-west-2"

(***************************************************************************)
(* State of a notebook session calling send_prompt.                        *)
(***************************************************************************)
VARIABLES
    pc,            \* position of the running call, or how the last call ended
    calls,         \* number of send_prompt calls started
    globals,       \* the module-level names send_prompt reads
    messages,      \* argument: the conversation
    temperature,   \* argument
    max_tokens,    \* argument
    top_p,         \* argument
    max_retries,   \* argument
    frame,         \* the local names bound so far in the call, with their values:
                   \* frmt_input, client, attempt, response, result, e
    raised,        \* the exception that propagated to the caller
    trace          \* what the call did so far: invoke_model, print and sleep events

args == <<messages, temperature, max_tokens, top_p, max_retries>>
vars == <<pc, calls, globals, args, frame, raised, trace>>

Terminal == {"returned", "raised"}

\* No exception has left the call.
NoError == "<none>"

\* The frame of a call that has bound no local name yet.
EmptyFrame == [n \in {} |-> 0]

\* name = value
Bind(f, name, value) == (name :> value) @@ f

Bound(name) == name \in DOMAIN frame

\* Observable events of a call, in the order they happen.
InvokeEvent(request, outcome) == [op |-> "invoke_model", request |-> request, outcome |-> outcome]
PrintEvent(n, e) == [op |-> "print", attempt |-> n, error |-> e]
SleepEvent(seconds) == [op |-> "sleep", seconds |-> seconds]

\* A call makes at most three events per attempt of its budget: an attempt
\* beyond that is cut off, which keeps the trace of a runaway loop finite.
MaxEvents == 3 * max_retries + 3

Init ==
    /\ pc = "idle"
    /\ calls = 0
    /\ globals = [model_id |-> model_id, region_info |-> region_info]
    /\ messages = <<>>
    /\ temperature = DefaultTemperature
    /\ max_tokens = DefaultMaxTokens
    /\ top_p = DefaultTopP
    /\ max_retries = DefaultMaxRetries
    /\ frame = EmptyFrame
    /\ raised = NoError
    /\ trace = <<>>

\* The caller enters send_prompt: a new frame, nothing bound but the arguments.
Call ==
    /\ pc \in {"idle"} \cup Terminal
    /\ calls < MaxCalls
    /\ calls' = calls + 1
    /\ UNCHANGED globals
    /\ messages' \in CallConversations
    /\ \E p \in Parameters :
          /\ temperature' = p.temperature
          /\ max_tokens' = p.max_tokens
    /\ top_p' = DefaultTopP
    /\ max_retries' \in RetryBudgets
    /\ frame' = EmptyFrame
    /\ raised' = NoError
    /\ trace' = <<>>
    /\ pc' = "format"

\* Variant of the rendering step with line 297 active: format_messages appends
\* an assistant entry to the caller's list.
FormatAppendsAssistant ==
    /\ pc = "format"
    /\ IF FormatRaises(messages)
         THEN /\ raised' = "KeyError"
              /\ pc' = "raised"
              /\ UNCHANGED <<frame, messages>>
         ELSE /\ \E now \in Dates :
                    frame' = Bind(frame, "frmt_input", format_messages(messages, now))
              /\ messages' = Append(messages, [role |-> "assistant"])
              /\ pc' = "client"
              /\ UNCHANGED raised
    /\ UNCHANGED <<calls, globals, temperature, max_tokens, top_p, max_retries, trace>>

\* frmt_input = format_messages(messages)
Format ==
    /\ pc = "format"
    /\ IF FormatRaises(messages)
         THEN /\ raised' = "KeyError"
              /\ pc' = "raised"
              /\ UNCHANGED frame
         ELSE /\ \E now \in Dates :
                    frame' = Bind(frame, "frmt_input", format_messages(messages, now))
              /\ pc' = "client"
              /\ UNCHANGED raised
    /\ UNCHANGED <<calls, globals, args, trace>>

\* Variant that keeps one client for the module: the session made by the
\* first call is used by every later call.
NewClientCached ==
    /\ pc = "client"
    /\ \/ /\ frame' = Bind(Bind(frame, "client",
                                [session |-> 1, region_name |-> globals.region_info]),
                           "attempt", 0)
          /\ pc' = "while"
          /\ UNCHANGED raised
       \/ /\ raised' = "BotoCoreError"
          /\ pc' = "raised"
          /\ UNCHANGED frame
    /\ UNCHANGED <<calls, globals, args, trace>>

\* client = boto3.Session().client(...); attempt = 0
\* Creating the session or the client may raise (no region, no credentials
\* profile); the statement is outside the try.
NewClient ==
    /\ pc = "client"
    /\ \/ /\ frame' = Bind(Bind(frame, "client",
                                [session |-> calls, region_name |-> globals.region_info]),
                           "attempt", 0)
          /\ pc' = "while"
          /\ UNCHANGED raised
       \/ /\ raised' = "BotoCoreError"
          /\ pc' = "raised"
          /\ UNCHANGED frame
    /\ UNCHANGED <<calls, globals, args, trace>>

\* Variant of the loop test written `while attempt != max_retries`.
WhileNotEqual ==
    /\ pc = "while"
    /\ IF frame.attempt # max_retries
         THEN pc' = "invoke" /\ UNCHANGED raised
         ELSE pc' = "raised" /\ raised' = "RetriesExhausted"
    /\ UNCHANGED <<calls, globals, args, frame, trace>>

\* Variant of the loop exit that falls through to `return response`.
WhileReturnsResponse ==
    /\ pc = "while"
    /\ IF frame.attempt < max_retries
         THEN pc' = "invoke" /\ UNCHANGED frame
         ELSE /\ pc' = "returned"
              /\ frame' = Bind(frame, "result",
                               IF Bound("response") THEN frame.response ELSE [body |-> <<>>])
    /\ UNCHANGED <<calls, globals, args, raised, trace>>

\* Variant of the loop written as a do-while: the body runs before the first test.
WhileBodyFirst ==
    /\ pc = "while"
    /\ IF frame.attempt < max_retries \/ (frame.attempt = 0 /\ trace = <<>>)
         THEN pc' = "invoke" /\ UNCHANGED raised
         ELSE pc' = "raised" /\ raised' = "RetriesExhausted"
    /\ UNCHANGED <<calls, globals, args, frame, trace>>

\* while attempt < max_retries: ... ; raise Exception("Failed to get response ...")
While ==
    /\ pc = "while"
    /\ IF frame.attempt < max_retries
         THEN pc' = "invoke" /\ UNCHANGED raised
         ELSE pc' = "raised" /\ raised' = "RetriesExhausted"
    /\ UNCHANGED <<calls, globals, args, frame, trace>>

\* Variant of the request that sends the default max_gen_len, not the caller's.
RequestDefaultTokens ==
    [ modelId |-> globals.model_id,
      body |-> [ prompt |-> frame.frmt_input, temperature |-> temperature,
                 max_gen_len |-> DefaultMaxTokens, top_p |-> top_p ],
      accept |-> "application/json",
      contentType |-> "application/json" ]

\* The request of one attempt: json.dumps of the four fields is the body.
Request ==
    [ modelId |-> globals.model_id,
      body |-> [ prompt |-> frame.frmt_input, temperature |-> temperature,
                 max_gen_len |-> max_tokens, top_p |-> top_p ],
      accept |-> "application/json",
      contentType |-> "application/json" ]

\* response = client.invoke_model(...)
Invoke ==
    /\ pc = "invoke"
    /\ Len(trace) < MaxEvents
    /\ \/ \E err \in InvokeErrors :
            /\ trace' = Append(trace, InvokeEvent(Request, [raises |-> err]))
            /\ frame' = Bind(frame, "e", err)
            /\ pc' = "except"
       \/ \E b \in Bodies :
            /\ trace' = Append(trace, InvokeEvent(Request, [body |-> b]))
            /\ frame' = Bind(frame, "response", [body |-> b])
            /\ pc' = "decode"
    /\ UNCHANGED <<calls, globals, args, raised>>

\* Variant of the decoding step placed outside the try: a body that does not
\* decode ends the call with the decoder's error.
DecodeOutsideTry ==
    /\ pc = "decode"
    /\ IF IsJson(frame.response.body)
         THEN /\ frame' = Bind(frame, "result", json_loads(frame.response.body))
              /\ pc' = "returned"
              /\ UNCHANGED raised
         ELSE /\ raised' = "JSONDecodeError"
              /\ pc' = "raised"
              /\ UNCHANGED frame
    /\ UNCHANGED <<calls, globals, args, trace>>

\* Variant of the decoding step that hands back the response object undecoded.
DecodeReturnsResponse ==
    /\ pc = "decode"
    /\ IF IsJson(frame.response.body)
         THEN /\ frame' = Bind(frame, "result", frame.response)
              /\ pc' = "returned"
         ELSE /\ frame' = Bind(frame, "e", "JSONDecodeError")
              /\ pc' = "except"
    /\ UNCHANGED <<calls, globals, args, raised, trace>>

\* result = json.loads(response['body'].read().decode('utf-8')); return result
Decode ==
    /\ pc = "decode"
    /\ IF IsJson(frame.response.body)
         THEN /\ frame' = Bind(frame, "result", json_loads(frame.response.body))
              /\ pc' = "returned"
         ELSE /\ frame' = Bind(frame, "e", "JSONDecodeError")
              /\ pc' = "except"
    /\ UNCHANGED <<calls, globals, args, raised, trace>>

\* Variant of the except clause that retries transient errors only: a
\* permission error is raised to the caller at once.
ExceptReraisesPermanent ==
    /\ pc = "except"
    /\ IF frame.e = "AccessDeniedException"
         THEN /\ raised' = frame.e
              /\ pc' = "raised"
              /\ UNCHANGED <<frame, trace>>
         ELSE /\ trace' = Append(trace, PrintEvent(frame.attempt + 1, frame.e))
              /\ frame' = Bind(frame, "attempt", frame.attempt + 1)
              /\ pc' = IF frame.attempt + 1 < max_retries THEN "sleep" ELSE "while"
              /\ UNCHANGED raised
    /\ UNCHANGED <<calls, globals, args>>

\* Variant of the except clause that counts a failed attempt twice.
ExceptCountsTwice ==
    /\ pc = "except"
    /\ trace' = Append(trace, PrintEvent(frame.attempt + 1, frame.e))
    /\ frame' = Bind(frame, "attempt", frame.attempt + 2)
    /\ pc' = IF frame.attempt + 2 < max_retries THEN "sleep" ELSE "while"
    /\ UNCHANGED <<calls, globals, args, raised>>

\* Variant of the except clause that goes on to the next attempt without sleeping.
ExceptSkipsSleep ==
    /\ pc = "except"
    /\ trace' = Append(trace, PrintEvent(frame.attempt + 1, frame.e))
    /\ frame' = Bind(frame, "attempt", frame.attempt + 1)
    /\ pc' = "while"
    /\ UNCHANGED <<calls, globals, args, raised>>

\* Variant of the except clause that sleeps after every failure, the last included.
ExceptAlwaysSleeps ==
    /\ pc = "except"
    /\ trace' = Append(trace, PrintEvent(frame.attempt + 1, frame.e))
    /\ frame' = Bind(frame, "attempt", frame.attempt + 1)
    /\ pc' = "sleep"
    /\ UNCHANGED <<calls, globals, args, raised>>

\* except Exception as e: print(...); attempt += 1; if attempt < max_retries: sleep
Except ==
    /\ pc = "except"
    /\ trace' = Append(trace, PrintEvent(frame.attempt + 1, frame.e))
    /\ frame' = Bind(frame, "attempt", frame.attempt + 1)
    /\ pc' = IF frame.attempt + 1 < max_retries THEN "sleep" ELSE "while"
    /\ UNCHANGED <<calls, globals, args, raised>>

\* Variant of the sleep that backs off: 30 seconds times the attempt number.
SleepBacksOff ==
    /\ pc = "sleep"
    /\ trace' = Append(trace, SleepEvent(SleepSeconds * frame.attempt))
    /\ pc' = "while"
    /\ UNCHANGED <<calls, globals, args, frame, raised>>

\* time.sleep(30)
Sleep ==
    /\ pc = "sleep"
    /\ trace' = Append(trace, SleepEvent(SleepSeconds))
    /\ pc' = "while"
    /\ UNCHANGED <<calls, globals, args, frame, raised>>

send_prompt == Format \/ NewClient \/ While \/ Invoke \/ Decode \/ Except \/ Sleep

Next == Call \/ send_prompt

Spec == Init /\ [][Next]_vars

\* Every statement of a running call returns, so the call takes its next step.
FairSpec == Spec /\ WF_vars(send_prompt)

(***************************************************************************)
(* format_messages on its own: any conversation up to MaxLen messages is   *)
(* rendered once.                                                          *)
(***************************************************************************)
InitRender ==
    /\ pc = "format"
    /\ calls = 1
    /\ globals = [model_id |-> model_id, region_info |-> region_info]
    /\ messages \in Conversations
    /\ temperature = DefaultTemperature
    /\ max_tokens = DefaultMaxTokens
    /\ top_p = DefaultTopP
    /\ max_retries = DefaultMaxRetries
    /\ frame = EmptyFrame
    /\ raised = NoError
    /\ trace = <<>>

SpecRender == InitRender /\ [][Format]_vars

(***************************************************************************)
(* Observations on the trace of the running (or last) call.                *)
(***************************************************************************)
IsInvoke(e) == e.op = "invoke_model"
IsPrint(e) == e.op = "print"
IsSleep(e) == e.op = "sleep"

Invocations == SelectSeq(trace, IsInvoke)
Prints == SelectSeq(trace, IsPrint)
Sleeps == SelectSeq(trace, IsSleep)

JsonKeys == {"generation"}
JsonValues == {"4", "Listeria"}

\* The endpoint answered with a body that is the text of a JSON object.
Succeeded(outcome) ==
    /\ "body" \in DOMAIN outcome
    /\ \E k \in JsonKeys, v \in JsonValues : outcome.body = JsonObject(k, v)

AllAttemptsFailed ==
    \A n \in 1..Len(Invocations) : ~Succeeded(Invocations[n].outcome)

\* The call got as far as the retry loop.
LoopEntered == Bound("attempt")

(***************************************************************************)
(* C1  Retry bound.  With max_retries = k >= 1 and every invocation        *)
(* attempt failing, a finished call has made exactly k attempts, has       *)
(* raised the retries-exhausted error and has slept exactly k-1 times:     *)
(* every sleep follows the log line of a failed attempt and is followed by *)
(* the next attempt, and nothing is slept after the last failure.          *)
(***************************************************************************)
RetryBound ==
    (pc \in Terminal /\ LoopEntered /\ max_retries >= 1 /\ AllAttemptsFailed) =>
        /\ pc = "raised" /\ raised = "RetriesExhausted"
        /\ Len(Invocations) = max_retries
        /\ Len(Prints) = max_retries
        /\ Len(Sleeps) = max_retries - 1
        /\ IsPrint(trace[Len(trace)])
        /\ \A i \in 1..Len(trace) :
              IsSleep(trace[i]) =>
                  /\ i > 1 /\ IsPrint(trace[i - 1])
                  /\ i < Len(trace) /\ IsInvoke(trace[i + 1])

WitnessRetryBound ==
    /\ pc = "raised" /\ raised = "RetriesExhausted"
    /\ max_retries >= 3
    /\ Len(Invocations) = max_retries
    /\ Len(Sleeps) = max_retries - 1

(***************************************************************************)
(* C2  Success on the n-th attempt.  When attempts 1..n-1 failed and       *)
(* attempt n is answered with a decodable body, no attempt follows it,     *)
(* exactly n-1 failures are logged, and the call returns the payload       *)
(* decoded from the body of attempt n.                                     *)
(***************************************************************************)
SuccessOnNthAttempt ==
    \A n \in 1..Len(Invocations) :
        Succeeded(Invocations[n].outcome) =>
            /\ n = Len(Invocations)
            /\ n <= max_retries
            /\ \A j \in 1..(n - 1) : ~Succeeded(Invocations[j].outcome)
            /\ Len(Prints) = n - 1
            /\ \A j \in 1..(n - 1) : Prints[j].attempt = j
            /\ IsInvoke(trace[Len(trace)])
            /\ pc \in {"decode", "returned"}
            /\ pc = "returned" =>
                  /\ raised = NoError
                  /\ \E k \in JsonKeys, v \in JsonValues :
                        /\ Invocations[n].outcome.body = JsonObject(k, v)
                        /\ frame.result = [key |-> k, value |-> v]

WitnessSuccessOnNthAttempt ==
    /\ pc = "returned"
    /\ Len(Invocations) >= 3
    /\ Len(Invocations) < max_retries
    /\ frame.result = [key |-> "generation", value |-> "Listeria"]

(***************************************************************************)
(* C3  Exhaustion yields an error and never a value.  A finished call all  *)
(* of whose attempts failed has raised the retries-exhausted error and has *)
(* returned nothing; a call that returned, returned the payload decoded    *)
(* from its last attempt, never the unbound or a stale response object.    *)
(***************************************************************************)
ExhaustionRaises ==
    /\ (pc \in Terminal /\ LoopEntered /\ AllAttemptsFailed) =>
          /\ pc = "raised"
          /\ raised = "RetriesExhausted"
          /\ ~Bound("result")
    /\ pc = "returned" =>
          /\ raised = NoError
          /\ Bound("result")
          /\ Len(Invocations) >= 1
          /\ Succeeded(Invocations[Len(Invocations)].outcome)
          /\ \E k \in JsonKeys, v \in JsonValues : frame.result = [key |-> k, value |-> v]

\* Exhausted with a response object left over from an attempt whose body did
\* not decode: the value the unreachable `return response` would hand back.
WitnessExhaustionRaises ==
    /\ pc = "raised" /\ raised = "RetriesExhausted"
    /\ max_retries >= 2
    /\ Bound("response")
    /\ ~Bound("result")

(***************************************************************************)
(* C4  Propagation policy.                                                 *)
(* As claimed: the only error that ever leaves a send_prompt call is the   *)
(* retries-exhausted error.                                                *)
(***************************************************************************)
OnlyExhaustionPropagates ==
    pc = "raised" => raised = "RetriesExhausted"

\* The error of a failed attempt: the one invoke_model raised, or the decoder's.
ErrorOf(outcome) ==
    IF "raises" \in DOMAIN outcome THEN outcome.raises ELSE "JSONDecodeError"

AttemptErrors == InvokeErrors \cup {"JSONDecodeError"}

(***************************************************************************)
(* C4, amended.  Once the retry loop is entered the only error that leaves *)
(* the call is the retries-exhausted error: the error of a failed attempt  *)
(* (invoke_model raising, the body not decoding) never reaches the caller  *)
(* and is logged before anything else happens.  Errors raised before the   *)
(* loop, by format_messages (KeyError on a system message without content) *)
(* or by the construction of the client, reach the caller unchanged, and   *)
(* then no attempt has been made.                                          *)
(***************************************************************************)
PropagationPolicy ==
    /\ (pc = "raised") <=> (raised # NoError)
    /\ raised \in {NoError, "RetriesExhausted", "KeyError", "BotoCoreError"}
    /\ raised \notin AttemptErrors
    /\ raised = "KeyError" =>
          FormatRaises(messages) /\ ~Bound("frmt_input") /\ trace = <<>>
    /\ raised = "BotoCoreError" =>
          Bound("frmt_input") /\ ~Bound("client") /\ trace = <<>>
    /\ (pc = "raised" /\ LoopEntered) => raised = "RetriesExhausted"
    /\ \A i \in 1..Len(trace) :
          (IsInvoke(trace[i]) /\ ~Succeeded(trace[i].outcome)) =>
              IF i = Len(trace)
                THEN pc \in {"decode", "except"}
                ELSE IsPrint(trace[i + 1]) /\ trace[i + 1].error = ErrorOf(trace[i].outcome)

WitnessPropagationPolicy ==
    /\ pc = "raised" /\ raised = "RetriesExhausted"
    /\ Len(Prints) >= 2
    /\ Prints[1].error = "JSONDecodeError"
    /\ Prints[2].error = "EndpointConnectionError"

(***************************************************************************)
(* C5  Every kind of failure of an attempt is handled alike.  Whatever the *)
(* error of the n-th attempt (network, remote, decoding, permission), the  *)
(* call next logs it as attempt n, the counter becomes n, the call sleeps  *)
(* the fixed interval if and only if n < max_retries, and then retries;    *)
(* the call ends only by a success or when n reaches max_retries.          *)
(***************************************************************************)
FailuresHandledAlike ==
    /\ Bound("attempt") => frame.attempt = Len(Prints)
    /\ \A i \in 1..Len(trace) :
          (IsInvoke(trace[i]) /\ ~Succeeded(trace[i].outcome)) =>
              LET n == Len(SelectSeq(SubSeq(trace, 1, i), IsInvoke))
              IN  /\ ErrorOf(trace[i].outcome) \in AttemptErrors
                  /\ i = Len(trace) => pc \in {"decode", "except"}
                  /\ i < Len(trace) =>
                        /\ trace[i + 1] = PrintEvent(n, ErrorOf(trace[i].outcome))
                        /\ frame.attempt >= n
                  /\ i + 1 = Len(trace) =>
                        /\ frame.attempt = n
                        /\ n < max_retries => pc = "sleep"
                        /\ n >= max_retries => pc \in {"while", "raised"}
                        /\ pc = "raised" => raised = "RetriesExhausted"
                  /\ i + 1 < Len(trace) =>
                        /\ n < max_retries
                        /\ trace[i + 2] = SleepEvent(SleepSeconds)
                  /\ i + 2 = Len(trace) => pc \in {"while", "invoke"}
                  /\ i + 2 < Len(trace) => IsInvoke(trace[i + 3])

\* One call that met a failure of each kind, the permission error first, and
\* went on to the next attempt after it.
WitnessFailuresHandledAlike ==
    /\ Len(Prints) = 4
    /\ { Prints[j].error : j \in 1..4 } = AttemptErrors
    /\ Prints[1].error = "AccessDeniedException"
    /\ Len(Invocations) = 4
    /\ Len(Sleeps) = 3

\* The largest value the counter can take, as claimed and as amended.
ClaimedCap == max_retries
AmendedCap == IF max_retries < 0 THEN 0 ELSE max_retries

\* One step of the attempt counter and of the terminal states, for a given cap.
LinearStep(cap) ==
    /\ (~Bound("attempt") /\ Bound("attempt")') => frame'.attempt = 0
    /\ (Bound("attempt") /\ calls' = calls) =>
          /\ Bound("attempt")'
          /\ frame'.attempt \in {frame.attempt, frame.attempt + 1}
          /\ (frame'.attempt = frame.attempt + 1) <=> (Len(Prints') = Len(Prints) + 1)
          /\ (frame'.attempt = frame.attempt + 1) =>
                /\ pc = "except"
                /\ ~Succeeded(trace[Len(trace)].outcome)
    /\ Bound("attempt")' => frame'.attempt <= cap'
    /\ pc \in Terminal => (calls' = calls + 1 /\ pc' = "format")
    /\ ~(pc' = "returned" /\ raised' # NoError)
    /\ ~(Bound("result")' /\ raised' # NoError)

(***************************************************************************)
(* C6, as claimed.  The attempt counter starts at 0, never decreases,      *)
(* grows by exactly one per failed attempt and by nothing else, never      *)
(* exceeds max_retries, and succeeded and exhausted are terminal and       *)
(* exclude each other.                                                     *)
(***************************************************************************)
ForwardOnlyAsClaimed == [][LinearStep(ClaimedCap)]_vars

(***************************************************************************)
(* C6, amended.  As claimed, but the counter never exceeds max_retries     *)
(* only for max_retries >= 0: for a negative max_retries it is 0, above    *)
(* the budget, from its initialisation until the call raises.              *)
(***************************************************************************)
ForwardOnly == [][LinearStep(AmendedCap)]_vars

WitnessForwardOnly ==
    /\ pc = "raised" /\ raised = "RetriesExhausted"
    /\ max_retries >= 2
    /\ frame.attempt = max_retries

(***************************************************************************)
(* C7  Termination.  Every call that has started eventually returns a      *)
(* payload or raises, whatever the endpoint answers, given that each       *)
(* statement of the call returns (weak fairness of the call's steps).      *)
(***************************************************************************)
Terminates == (pc \notin (Terminal \cup {"idle"})) ~> (pc \in Terminal)

WitnessTerminates ==
    /\ pc = "returned"
    /\ calls = 2
    /\ Len(Prints) >= 2
    /\ Len(Sleeps) >= 2

(***************************************************************************)
(* Observations on a rendered prompt.                                      *)
(***************************************************************************)
Rendered == Bound("frmt_input")

AssistantHeader == <<SH, "assistant", EH>>

\* The positions at which pat occurs in s.
Occurrences(pat, s) ==
    { i \in 1..(Len(s) - Len(pat) + 1) : SubSeq(s, i, i + Len(pat) - 1) = pat }

\* The positions of s at which a role header starts: the start marker, a role
\* name, the end marker.
RoleHeaders(s) ==
    { i \in 1..(Len(s) - 2) : s[i] = SH /\ s[i + 1] \in Roles /\ s[i + 2] = EH }

\* Number of symbols a message adds after its role header: the date preamble
\* (5 symbols, the 9 of the date, 2 newlines), or two newlines, then the
\* content and the end-of-turn; nothing for a message without content.
BodyLen(entry) ==
    IF entry.role = "system" THEN (5 + 9 + 2) + Len(entry.content) + 1
    ELSE IF HasContent(entry) THEN 2 + Len(entry.content) + 1
    ELSE 0

\* Where the block of the i-th message starts in the rendered prompt.
RECURSIVE BlockStart(_, _)
BlockStart(msgs, i) ==
    IF i = 1 THEN 2
    ELSE BlockStart(msgs, i - 1) + 3 + BodyLen(msgs[i - 1])

(***************************************************************************)
(* C8  Rendered prompt shape.  Whenever format_messages returns, the       *)
(* string begins with the begin-of-text marker, holds one block per input  *)
(* message in input order, each opened by that message's role header, and  *)
(* ends with the open assistant header followed by a newline only, with no *)
(* end-of-turn after it.                                                   *)
(***************************************************************************)
RenderedShape ==
    Rendered =>
        LET s == frame.frmt_input
            n == Len(messages)
        IN  /\ s[1] = BOT
            /\ Occurrences(<<BOT>>, s) = {1}
            /\ \A i \in 1..n :
                  /\ SubSeq(s, BlockStart(messages, i), BlockStart(messages, i) + 2)
                        = <<SH, messages[i].role, EH>>
                  /\ HasContent(messages[i]) =>
                        s[BlockStart(messages, i + 1) - 1] = EOT
            /\ BlockStart(messages, n + 1) = Len(s) - 3
            /\ SubSeq(s, Len(s) - 3, Len(s)) = AssistantHeader \o <<NL>>
            /\ s[Len(s)] # EOT

WitnessRenderedShape ==
    /\ Rendered
    /\ Len(messages) = 3
    /\ messages[1].role = "system"
    /\ messages[2].role = "user" /\ HasContent(messages[2])
    /\ messages[3].role = "tool" /\ ~HasContent(messages[3])

\* A system message followed by a user message, both with content.
SystemThenUser ==
    /\ Len(messages) = 2
    /\ messages[1].role = "system" /\ HasContent(messages[1])
    /\ messages[2].role = "user" /\ HasContent(messages[2])

RECURSIVE Sum(_)
Sum(ns) == IF ns = <<>> THEN 0 ELSE Head(ns) + Sum(Tail(ns))

\* Count summed over the contents of the messages that have one.
SumOver(msgs, Count(_)) ==
    Sum([i \in 1..Len(msgs) |-> IF HasContent(msgs[i]) THEN Count(msgs[i].content) ELSE 0])

AssistantHeadersIn(text) == Cardinality(Occurrences(AssistantHeader, text))
RoleHeadersIn(text) == Cardinality(RoleHeaders(text))

(***************************************************************************)
(* C9, as claimed.  For a system message followed by a user message, with  *)
(* any content, the rendered prompt has exactly one occurrence of the      *)
(* assistant open header, at its end, and no end-of-turn closes it.        *)
(***************************************************************************)
OneAssistantHeaderAsClaimed ==
    (Rendered /\ SystemThenUser) =>
        LET s == frame.frmt_input
        IN  /\ Occurrences(AssistantHeader, s) = {Len(s) - 3}
            /\ s[Len(s)] = NL

(***************************************************************************)
(* C9, amended.  For a system message followed by a user message the       *)
(* rendered prompt ends with the assistant open header and a newline, no   *)
(* end-of-turn closes it, and the occurrences of the assistant open header *)
(* are that last one plus those the contents themselves contain (content   *)
(* is copied verbatim): exactly one if and only if no content contains the *)
(* header.                                                                 *)
(***************************************************************************)
OneAssistantHeader ==
    (Rendered /\ SystemThenUser) =>
        LET s == frame.frmt_input
            inContent == SumOver(messages, AssistantHeadersIn)
        IN  /\ Len(s) - 3 \in Occurrences(AssistantHeader, s)
            /\ \A i \in Occurrences(AssistantHeader, s) : i <= Len(s) - 3
            /\ s[Len(s)] = NL
            /\ Cardinality(Occurrences(AssistantHeader, s)) = 1 + inContent
            /\ (inContent = 0) <=> (Occurrences(AssistantHeader, s) = {Len(s) - 3})

WitnessOneAssistantHeader ==
    /\ Rendered /\ SystemThenUser
    /\ messages[1].content = <<"What is 2+2?">>
    /\ messages[2].content = <<"What is 2+2?">>
    /\ Occurrences(AssistantHeader, frame.frmt_input) = {Len(frame.frmt_input) - 3}

\* A system message followed by user and assistant messages in turn, all with
\* content.
SystemThenAlternating ==
    /\ Len(messages) >= 1
    /\ messages[1].role = "system"
    /\ \A i \in 1..Len(messages) : HasContent(messages[i])
    /\ \A i \in 2..Len(messages) :
          messages[i].role = IF i % 2 = 0 THEN "user" ELSE "assistant"

(***************************************************************************)
(* C10, as claimed.  For a system message followed by N alternating        *)
(* user/assistant messages the rendered prompt holds N + 2 role headers.   *)
(***************************************************************************)
HeaderCountAsClaimed ==
    (Rendered /\ SystemThenAlternating) =>
        Cardinality(RoleHeaders(frame.frmt_input)) = (Len(messages) - 1) + 2

(***************************************************************************)
(* C10, amended.  For a system message followed by N alternating           *)
(* user/assistant messages the rendered prompt holds N + 2 role headers    *)
(* written by the renderer (system, one per message, the trailing open     *)
(* assistant header) plus every role header the contents themselves        *)
(* contain: N + 2 exactly when no content contains a role header.          *)
(***************************************************************************)
HeaderCount ==
    (Rendered /\ SystemThenAlternating) =>
        LET s == frame.frmt_input
            N == Len(messages) - 1
            inContent == SumOver(messages, RoleHeadersIn)
        IN  /\ Cardinality(RoleHeaders(s)) = N + 2 + inContent
            /\ { BlockStart(messages, i) : i \in 1..(N + 2) } \subseteq RoleHeaders(s)
            /\ (inContent = 0) <=> (Cardinality(RoleHeaders(s)) = N + 2)

WitnessHeaderCount ==
    /\ Rendered /\ SystemThenAlternating
    /\ Len(messages) = 3
    /\ \A i \in 1..3 : messages[i].content = <<"What is 2+2?">>
    /\ Cardinality(RoleHeaders(frame.frmt_input)) = 4

(***************************************************************************)
(* C11  Rendering is deterministic for a fixed date.  The rendered prompt  *)
(* is the one format_messages gives for the conversation at every instant  *)
(* of one calendar date, whatever the time of day; with a system message   *)
(* it differs from the rendering at any other date, without one it is the  *)
(* same at all dates.  Nothing else enters the output.                     *)
(***************************************************************************)
SameDate(a, b) == a.day = b.day /\ a.month = b.month /\ a.year = b.year

HasSystem(msgs) == \E i \in 1..Len(msgs) : msgs[i].role = "system"

RenderingDeterministic ==
    Rendered =>
        \E d \in Dates :
            \A now \in Dates :
                /\ SameDate(now, d) => format_messages(messages, now) = frame.frmt_input
                /\ (~SameDate(now, d) /\ HasSystem(messages)) =>
                      format_messages(messages, now) # frame.frmt_input
                /\ ~HasSystem(messages) => format_messages(messages, now) = frame.frmt_input

WitnessRenderingDeterministic ==
    /\ Rendered
    /\ Len(messages) = 3
    /\ messages[1].role = "system"
    /\ "3" \in { frame.frmt_input[i] : i \in 1..Len(frame.frmt_input) }

(***************************************************************************)
(* C12  Per-role block content.  The block of a system message is its role *)
(* header, the date preamble, its content and the end-of-turn; the block   *)
(* of any other message with content is its role header, two newlines, its *)
(* content unchanged and the end-of-turn; the block of a message without   *)
(* content is its role header alone.  The preamble is written in system    *)
(* blocks only, with one date for the whole prompt.                        *)
(***************************************************************************)
BlockOf(s, msgs, i) ==
    SubSeq(s, BlockStart(msgs, i), BlockStart(msgs, i + 1) - 1)

BlockContent ==
    Rendered =>
        \E d \in Dates :
            \A i \in 1..Len(messages) :
                LET entry == messages[i]
                    header == <<SH, entry.role, EH>>
                    block == BlockOf(frame.frmt_input, messages, i)
                IN  IF entry.role = "system"
                      THEN block = header \o system_prefix(d) \o entry.content \o <<EOT>>
                      ELSE IF HasContent(entry)
                             THEN block = header \o <<NL, NL>> \o entry.content \o <<EOT>>
                             ELSE block = header

WitnessBlockContent ==
    /\ Rendered
    /\ Len(messages) = 3
    /\ messages[1].role = "user" /\ ~HasContent(messages[1])
    /\ messages[2].role = "system"
    /\ messages[3].role = "assistant" /\ HasContent(messages[3])

(***************************************************************************)
(* C13, as claimed.  In the rendered prompt the content of every user      *)
(* message occurs immediately after that message's role header, and the    *)
(* prompt ends with the open assistant header and a newline.               *)
(***************************************************************************)
UserHeader == <<SH, "user", EH>>

ContentAfterHeaderAsClaimed ==
    Rendered =>
        LET s == frame.frmt_input
        IN  /\ \A i \in 1..Len(messages) :
                  (messages[i].role = "user" /\ HasContent(messages[i])) =>
                      \E p \in Occurrences(messages[i].content, s) :
                          p > 3 /\ SubSeq(s, p - 3, p - 1) = UserHeader
            /\ SubSeq(s, Len(s) - 3, Len(s)) = AssistantHeader \o <<NL>>

(***************************************************************************)
(* C13, amended.  In the rendered prompt the content of every user message *)
(* is preceded by two newlines, and these by that message's role header;   *)
(* the prompt ends with the open assistant header and a newline.  So for   *)
(* [{system, "You are helpful."}, {user, "What is 2+2?"}].                 *)
(***************************************************************************)
ContentAfterHeader ==
    Rendered =>
        LET s == frame.frmt_input
        IN  /\ \A i \in 1..Len(messages) :
                  (messages[i].role = "user" /\ HasContent(messages[i])) =>
                      LET b == BlockStart(messages, i)
                      IN  SubSeq(s, b, b + 4 + Len(messages[i].content))
                              = UserHeader \o <<NL, NL>> \o messages[i].content
            /\ SubSeq(s, Len(s) - 3, Len(s)) = AssistantHeader \o <<NL>>
            /\ messages = ExampleConversation =>
                  /\ Occurrences(UserHeader \o <<NL, NL, "What is 2+2?">>, s) # {}
                  /\ Occurrences(UserHeader \o <<"What is 2+2?">>, s) = {}

WitnessContentAfterHeader ==
    /\ Rendered
    /\ messages = ExampleConversation

(***************************************************************************)
(* C14  The renderer never fails.  For every sequence of role-tagged       *)
(* messages, whatever the roles, the order, the length, and whether the    *)
(* contents are there, format_messages returns a string and raises         *)
(* nothing.                                                                *)
(***************************************************************************)
RendererNeverRaises ==
    /\ raised # "KeyError"
    /\ pc # "format" => Rendered

(***************************************************************************)
(* C15  Conversation invariant at invocation.  Every conversation for      *)
(* which send_prompt makes an invocation attempt is non-empty, has a user  *)
(* message as its first non-system message, alternates user/assistant      *)
(* after the optional leading system message, and ends with a user         *)
(* message.                                                                *)
(***************************************************************************)
\* The messages after the optional leading system message.
AfterSystem(msgs) ==
    IF msgs # <<>> /\ msgs[1].role = "system" THEN Tail(msgs) ELSE msgs

WellFormed(msgs) ==
    LET turns == AfterSystem(msgs)
    IN  /\ turns # <<>>
        /\ \A i \in 1..Len(turns) :
              turns[i].role = IF i % 2 = 1 THEN "user" ELSE "assistant"
        /\ turns[Len(turns)].role = "user"

ConversationInvariantAtInvocation ==
    Len(Invocations) >= 1 => WellFormed(messages)

(***************************************************************************)
(* C16  The request is immutable within a call.  The conversation is       *)
(* rendered once, before the first attempt, and the prompt, the arguments  *)
(* and the client then stay as they are; every attempt sends the same      *)
(* request, whose body holds that prompt, temperature, max_gen_len =       *)
(* max_tokens and top_p; the except clause changes no local name but the   *)
(* attempt counter.                                                        *)
(***************************************************************************)
SameRequests ==
    /\ Len(Invocations) >= 1 => Rendered
    /\ \A i \in 1..Len(Invocations) :
          /\ Invocations[i].request = Invocations[1].request
          /\ Invocations[i].request.body =
                [ prompt |-> frame.frmt_input, temperature |-> temperature,
                  max_gen_len |-> max_tokens, top_p |-> top_p ]
          /\ Invocations[i].request.modelId = globals.model_id

RequestStep ==
    /\ (~Rendered /\ Rendered') => (pc = "format" /\ trace = <<>> /\ trace' = <<>>)
    /\ calls' = calls =>
          /\ UNCHANGED args
          /\ Rendered => (Rendered' /\ frame'.frmt_input = frame.frmt_input)
          /\ Bound("client") => (Bound("client")' /\ frame'.client = frame.client)
    /\ pc = "except" =>
          /\ DOMAIN frame' = DOMAIN frame
          /\ \A n \in DOMAIN frame \ {"attempt"} : frame'[n] = frame[n]

RequestImmutable == []SameRequests /\ [][RequestStep]_vars

WitnessRequestImmutable ==
    /\ Len(Invocations) >= 3
    /\ max_tokens = 256
    /\ temperature = 7
    /\ Invocations[3].request.body.max_gen_len = 256

(***************************************************************************)
(* C17  Calls are independent.  Every call starts with nothing bound, no   *)
(* event and no error, whether the call before it returned or raised; it   *)
(* makes a client of its own, binds its counter to 0 and, when every       *)
(* attempt fails, uses its whole budget; no step of a call changes a       *)
(* module-level name.                                                      *)
(***************************************************************************)
FreshCall ==
    /\ pc = "format" => (frame = EmptyFrame /\ trace = <<>> /\ raised = NoError)
    /\ Bound("client") =>
          frame.client = [session |-> calls, region_name |-> region_info]
    /\ (pc = "raised" /\ raised = "RetriesExhausted") =>
          Len(Invocations) = AmendedCap

IndependentStep ==
    /\ globals' = globals
    /\ calls' # calls =>
          /\ pc \in {"idle"} \cup Terminal
          /\ calls' = calls + 1
          /\ pc' = "format" /\ frame' = EmptyFrame /\ trace' = <<>> /\ raised' = NoError
    /\ (~Bound("attempt") /\ Bound("attempt")') => frame'.attempt = 0

IndependentCalls == []FreshCall /\ [][IndependentStep]_vars

\* A second call that used its whole budget with a client of its own.
WitnessIndependentCalls ==
    /\ calls = 2
    /\ pc = "raised" /\ raised = "RetriesExhausted"
    /\ max_retries >= 2
    /\ Len(Invocations) = max_retries
    /\ frame.client.session = 2

(***************************************************************************)
(* C18  format_messages has no side effects.  The rendering step leaves    *)
(* the conversation as it was (same messages, same fields, same order,     *)
(* nothing appended) and changes nothing but the name its result is bound  *)
(* to, or the error it raises.                                             *)
(***************************************************************************)
RenderStep ==
    pc = "format" =>
        /\ messages' = messages
        /\ UNCHANGED <<calls, globals, temperature, max_tokens, top_p, max_retries, trace>>
        /\ DOMAIN frame' \subseteq DOMAIN frame \cup {"frmt_input"}
        /\ \A n \in DOMAIN frame : frame'[n] = frame[n]

FormatHasNoSideEffects == [][RenderStep]_vars

WitnessFormatHasNoSideEffects ==
    /\ Rendered
    /\ Len(messages) = 2
    /\ messages[2] = [role |-> "user", content |-> <<"What is 2+2?">>]
    /\ RoleHeadersIn(frame.frmt_input) = 3

(***************************************************************************)
(* C19  Attempts are strictly sequential.  The first event of a call is an *)
(* attempt; every later attempt comes right after a sleep, which comes     *)
(* right after the log line of the attempt before, which failed; the       *)
(* counter is incremented before the sleep starts, and an attempt starts   *)
(* only when the one before it has been answered.                          *)
(***************************************************************************)
LastEvent == trace[Len(trace)]

SequentialAttempts ==
    /\ trace # <<>> => IsInvoke(trace[1])
    /\ \A i \in 2..Len(trace) :
          IsInvoke(trace[i]) =>
              /\ i >= 4
              /\ IsSleep(trace[i - 1])
              /\ IsPrint(trace[i - 2])
              /\ IsInvoke(trace[i - 3])
              /\ ~Succeeded(trace[i - 3].outcome)
              /\ trace[i - 2].error = ErrorOf(trace[i - 3].outcome)
    /\ Len(Invocations) <= Len(Prints) + 1
    /\ pc = "sleep" => (IsPrint(LastEvent) /\ frame.attempt = Len(Prints))
    /\ (pc = "invoke" /\ trace # <<>>) =>
          (IsSleep(LastEvent) /\ frame.attempt = Len(Prints) /\ Len(Sleeps) = Len(Prints))
    /\ pc \in {"decode", "except"} => Len(Invocations) = Len(Prints) + 1

WitnessSequentialAttempts ==
    /\ pc = "invoke"
    /\ Len(Invocations) = 2
    /\ Len(Sleeps) = 2

(***************************************************************************)
(* C20  The delay between attempts is fixed.  Every sleep of a call lasts  *)
(* 30 seconds, whatever the attempt number, the kind of the failure before *)
(* it and max_retries.                                                     *)
(***************************************************************************)
FixedDelay ==
    \A i \in 1..Len(trace) :
        IsSleep(trace[i]) =>
            /\ trace[i].seconds = SleepSeconds
            /\ \A j \in 1..Len(trace) : IsSleep(trace[j]) => trace[j].seconds = trace[i].seconds

\* Three sleeps in a call, after failures of different kinds.
WitnessFixedDelay ==
    /\ Len(Sleeps) = 3
    /\ max_retries = 4
    /\ Prints[1].error = "JSONDecodeError"
    /\ Prints[2].error = "AccessDeniedException"
    /\ Prints[3].error = "EndpointConnectionError"

(***************************************************************************)
(* C21  Degenerate retry budget.  With max_retries <= 0 a call makes no    *)
(* invocation attempt, logs nothing and never sleeps; once the prompt is   *)
(* rendered and the client is made, the first loop test fails and the call *)
(* raises the retries-exhausted error with the counter still 0.            *)
(***************************************************************************)
DegenerateBudget ==
    (max_retries <= 0 /\ calls >= 1) =>
        /\ trace = <<>>
        /\ pc \notin {"invoke", "decode", "except", "sleep", "returned"}
        /\ ~Bound("result")
        /\ LoopEntered => frame.attempt = 0
        /\ (pc = "raised" /\ LoopEntered) => raised = "RetriesExhausted"
        /\ raised = "RetriesExhausted" =>
              (pc = "raised" /\ Rendered /\ Bound("client") /\ LoopEntered)

WitnessDegenerateBudget ==
    /\ calls = 2
    /\ max_retries = 0
    /\ pc = "raised" /\ raised = "RetriesExhausted"
    /\ Rendered /\ Bound("client")
    /\ trace = <<>>

(***************************************************************************)
(* The notebook cells that wait for the model import job (lines 214-227)   *)
(* and for the cold start (lines 267-268).  They run at module level: the  *)
(* names they assign are entries of globals.                               *)
(***************************************************************************)
MaxPolls == 3
PollSeconds == 60
ColdStartSeconds == 300

LowerCase == << "a", "c", "d", "e", "f", "g", "i", "l", "m", "n", "o", "p", "r", "s", "t" >>
UpperCase == << "A", "C", "D", "E", "F", "G", "I", "L", "M", "N", "O", "P", "R", "S", "T" >>

\* str.upper() of one character, then of a text.
upper_char(c) ==
    IF \E i \in 1..Len(LowerCase) : LowerCase[i] = c
    THEN UpperCase[CHOOSE i \in 1..Len(LowerCase) : LowerCase[i] = c]
    ELSE c

upper(text) == [i \in 1..Len(text) |-> upper_char(text[i])]

\* Status texts a poll may carry: the service's spellings of a running, a
\* completed and a failed job, and spellings in other letter cases.
InProgress == << "I", "n", "P", "r", "o", "g", "r", "e", "s", "s" >>
Pending == << "P", "e", "n", "d", "i", "n", "g" >>
Completed == << "C", "o", "m", "p", "l", "e", "t", "e", "d" >>
Failed == << "F", "a", "i", "l", "e", "d" >>
JobStatuses == { InProgress, Pending, Completed, Failed, upper(Completed),
                 << "f", "a", "i", "l", "e", "d" >> }

COMPLETED == << "C", "O", "M", "P", "L", "E", "T", "E", "D" >>
FAILED == << "F", "A", "I", "L", "E", "D" >>

JobArns == { "arn:aws:bedrock:model-import-job/a1", "arn:aws:bedrock:model-import-job/b2" }

\* The ARN under which the service registers the model of a job.
ImportedModelArn(job) ==
    IF job = "arn:aws:bedrock:model-import-job/a1"
    THEN "arn:aws:bedrock:imported-model/a1"
    ELSE "arn:aws:bedrock:imported-model/b2"

PollEvent(job, response) ==
    [op |-> "get_model_import_job", jobIdentifier |-> job, response |-> response]
StatusEvent(status) == [op |-> "print", status |-> status]

IsPoll(e) == e.op = "get_model_import_job"
Polls == SelectSeq(trace, IsPoll)

InitImport ==
    /\ pc = "poll"
    /\ calls = 0
    /\ \E job \in JobArns : globals = [region_info |-> region_info, job_Arn |-> job]
    /\ messages = <<>>
    /\ temperature = DefaultTemperature
    /\ max_tokens = DefaultMaxTokens
    /\ top_p = DefaultTopP
    /\ max_retries = DefaultMaxRetries
    /\ frame = EmptyFrame
    /\ raised = NoError
    /\ trace = <<>>

\* response = bedrock.get_model_import_job(...); status = response['status'].upper();
\* print(f"Status: {status}")
Poll ==
    /\ pc = "poll"
    /\ Len(Polls) < MaxPolls
    /\ \E raw \in JobStatuses :
          LET response == [status |-> raw,
                           importedModelArn |-> ImportedModelArn(globals.job_Arn)]
              status == upper(raw)
          IN  /\ globals' = Bind(Bind(globals, "response", response), "status", status)
              /\ trace' = trace \o <<PollEvent(globals.job_Arn, response), StatusEvent(status)>>
    /\ pc' = "test"
    /\ UNCHANGED <<calls, args, frame, raised>>

\* Variant of the test that leaves the loop for a completed job only.
TestCompletedOnly ==
    /\ pc = "test"
    /\ pc' = IF globals.status \in {COMPLETED} THEN "assign" ELSE "wait"
    /\ UNCHANGED <<calls, globals, args, frame, raised, trace>>

\* if status in ['COMPLETED', 'FAILED']: break
Test ==
    /\ pc = "test"
    /\ pc' = IF globals.status \in {COMPLETED, FAILED} THEN "assign" ELSE "wait"
    /\ UNCHANGED <<calls, globals, args, frame, raised, trace>>

\* time.sleep(60)
Wait ==
    /\ pc = "wait"
    /\ trace' = Append(trace, SleepEvent(PollSeconds))
    /\ pc' = "poll"
    /\ UNCHANGED <<calls, globals, args, frame, raised>>

\* Variant of the assignment that stops the notebook for a failed job.
AssignIfCompleted ==
    /\ pc = "assign"
    /\ IF globals.status = COMPLETED
         THEN /\ globals' = Bind(globals, "model_id", globals.response.importedModelArn)
              /\ pc' = "coldstart"
              /\ UNCHANGED raised
         ELSE /\ raised' = "RuntimeError"
              /\ pc' = "raised"
              /\ UNCHANGED globals
    /\ UNCHANGED <<calls, args, frame, trace>>

\* model_id = response['importedModelArn']
Assign ==
    /\ pc = "assign"
    /\ globals' = Bind(globals, "model_id", globals.response.importedModelArn)
    /\ pc' = "coldstart"
    /\ UNCHANGED <<calls, args, frame, raised, trace>>

\* time.sleep(300); the next cells define and call send_prompt
ColdStart ==
    /\ pc = "coldstart"
    /\ trace' = Append(trace, SleepEvent(ColdStartSeconds))
    /\ pc' = "idle"
    /\ UNCHANGED <<calls, globals, args, frame, raised>>

NextImport == Poll \/ Test \/ Wait \/ Assign \/ ColdStart

SpecImport == InitImport /\ [][NextImport]_vars

\* Every statement of the cells returns.
FairImport == SpecImport /\ WF_vars(NextImport)

\* A status text that reads COMPLETED or FAILED when letter case is ignored.
TerminalStatus(raw) == upper(raw) \in {COMPLETED, FAILED}

LastPoll == Polls[Len(Polls)]
AfterLoop == pc \in {"assign", "coldstart", "idle"}

(***************************************************************************)
(* C22  Import-job polling loop.  The loop is left at, and only at, the    *)
(* first poll whose status reads COMPLETED or FAILED in any letter case;   *)
(* a 60 second sleep follows every poll with another status and never the  *)
(* terminal poll; the loop itself puts no limit on the number of polls,    *)
(* and once a terminal status is polled the cell finishes.                 *)
(***************************************************************************)
PollingInv ==
    /\ \A i \in 1..Len(Polls) :
          TerminalStatus(Polls[i].response.status) => i = Len(Polls)
    /\ AfterLoop => (Polls # <<>> /\ TerminalStatus(LastPoll.response.status))
    /\ pc = "wait" => (Polls # <<>> /\ ~TerminalStatus(LastPoll.response.status))
    /\ pc = "poll" => \A i \in 1..Len(Polls) : ~TerminalStatus(Polls[i].response.status)
    /\ \A i \in 1..Len(trace) :
          /\ IsPoll(trace[i]) =>
                /\ i + 1 <= Len(trace)
                /\ trace[i + 1] = StatusEvent(upper(trace[i].response.status))
                /\ (~TerminalStatus(trace[i].response.status) /\ i + 2 <= Len(trace)) =>
                      trace[i + 2] = SleepEvent(PollSeconds)
                /\ (~TerminalStatus(trace[i].response.status) /\ i + 2 > Len(trace)) =>
                      pc \in {"test", "wait"}
                /\ (TerminalStatus(trace[i].response.status) /\ i + 2 <= Len(trace)) =>
                      trace[i + 2] # SleepEvent(PollSeconds)
          /\ trace[i] = SleepEvent(PollSeconds) =>
                /\ i >= 3
                /\ IsPoll(trace[i - 2])
                /\ ~TerminalStatus(trace[i - 2].response.status)

PollingLoop ==
    /\ []PollingInv
    /\ (Polls # <<>> /\ TerminalStatus(LastPoll.response.status)) ~> (pc = "idle")

\* The loop left at the third poll, on a status spelled in lower case.
WitnessPollingLoop ==
    /\ pc = "coldstart"
    /\ Len(Polls) = 3
    /\ LastPoll.response.status = << "f", "a", "i", "l", "e", "d" >>
    /\ Polls[1].response.status = InProgress
    /\ Len(Sleeps) = 2

(***************************************************************************)
(* C23  After the polling loop model_id is the importedModelArn of the     *)
(* last poll response, for a job that ended FAILED as for one that ended   *)
(* COMPLETED: nothing is raised, the cold-start wait of 300 seconds        *)
(* follows, and the notebook reaches the cells that call send_prompt with  *)
(* that model_id.                                                          *)
(***************************************************************************)
ModelIdInv ==
    /\ AfterLoop => raised = NoError
    /\ "model_id" \in DOMAIN globals =>
          /\ pc \in {"coldstart", "idle"}
          /\ globals.model_id = LastPoll.response.importedModelArn
          /\ globals.model_id = ImportedModelArn(globals.job_Arn)
    /\ pc \in {"coldstart", "idle"} => "model_id" \in DOMAIN globals
    /\ pc = "idle" => trace[Len(trace)] = SleepEvent(ColdStartSeconds)
    /\ pc # "idle" => \A i \in 1..Len(trace) : trace[i] # SleepEvent(ColdStartSeconds)

MaxPages == 2
MaxPageLen == 2

JobPrefixes == { <<"dpo">>, <<"my-">> }
JobNames == { <<"dpo", "-1">>, <<"dpo", "-2">>, <<"my-", "dpo">> }

\* str.startswith
startswith(name, prefix) ==
    /\ Len(prefix) <= Len(name)
    /\ SubSeq(name, 1, Len(prefix)) = prefix

\* The 'Contains' filter of the search expression.
Contains(name, prefix) ==
    \E i \in 1..(Len(name) - Len(prefix) + 1) : SubSeq(name, i, i + Len(prefix) - 1) = prefix

\* The pages the service may hold for a prefix: at least one, the names of
\* each containing the prefix.
ResultPages(prefix) ==
    LET names == { n \in JobNames : Contains(n, prefix) }
    IN  SeqsUpTo(SeqsUpTo(names, MaxPageLen), MaxPages) \ {<<>>}

\* The value of an absent NextToken (None), and the token that asks for page i.
None == "<None>"
TokenOf(i) == <<"page-1", "page-2", "page-3", "page-4">>[i]
PageOf(token) == CHOOSE i \in 1..4 : TokenOf(i) = token

\* sagemaker_client.search(**search_params)
search(pages, params) ==
    LET i == IF "NextToken" \in DOMAIN params THEN PageOf(params.NextToken) ELSE 1
        results == [Results |-> pages[i]]
    IN  IF i < Len(pages) THEN Bind(results, "NextToken", TokenOf(i + 1)) ELSE results

SearchEvent(params, response) == [op |-> "search", params |-> params, response |-> response]
IsSearch(e) == e.op = "search"
Searches == SelectSeq(trace, IsSearch)

\* The call get_last_job_name(job_name_prefix), up to the loop.
InitSearch ==
    /\ pc = "search"
    /\ calls = 1
    /\ \E prefix \in JobPrefixes :
          /\ globals \in { [pages |-> pages] : pages \in ResultPages(prefix) }
          /\ frame = [job_name_prefix |-> prefix, matching_jobs |-> <<>>, next_token |-> None]
    /\ messages = <<>>
    /\ temperature = DefaultTemperature
    /\ max_tokens = DefaultMaxTokens
    /\ top_p = DefaultTopP
    /\ max_retries = DefaultMaxRetries
    /\ raised = NoError
    /\ trace = <<>>

\* search_params = {...}; if next_token: search_params['NextToken'] = next_token;
\* search_response = sagemaker_client.search(**search_params)
Search ==
    /\ pc = "search"
    /\ LET base == [Value |-> frame.job_name_prefix, SortBy |-> "CreationTime",
                    SortOrder |-> "Descending"]
           search_params == IF frame.next_token # None
                            THEN Bind(base, "NextToken", frame.next_token)
                            ELSE base
           search_response == search(globals.pages, search_params)
       IN  /\ frame' = Bind(frame, "search_response", search_response)
           /\ trace' = Append(trace, SearchEvent(search_params, search_response))
    /\ pc' = "extend"
    /\ UNCHANGED <<calls, globals, args, raised>>

\* matching_jobs.extend([name for job in Results if name.startswith(job_name_prefix)])
Extend ==
    /\ pc = "extend"
    /\ LET matches(name) == startswith(name, frame.job_name_prefix)
       IN  frame' = Bind(frame, "matching_jobs",
                         frame.matching_jobs \o SelectSeq(frame.search_response.Results, matches))
    /\ pc' = "more"
    /\ UNCHANGED <<calls, globals, args, raised, trace>>

\* search_response.get('NextToken')
get_NextToken(response) ==
    IF "NextToken" \in DOMAIN response THEN response.NextToken ELSE None

\* Variant of the loop exit that stops only when the pages run out.
MoreUntilLastPage ==
    /\ pc = "more"
    /\ LET next_token == get_NextToken(frame.search_response)
       IN  /\ frame' = Bind(frame, "next_token", next_token)
           /\ pc' = IF next_token = None THEN "finish" ELSE "search"
    /\ UNCHANGED <<calls, globals, args, raised, trace>>

\* next_token = search_response.get('NextToken'); if not next_token or matching_jobs: break
More ==
    /\ pc = "more"
    /\ LET next_token == get_NextToken(frame.search_response)
       IN  /\ frame' = Bind(frame, "next_token", next_token)
           /\ pc' = IF next_token = None \/ frame.matching_jobs # <<>>
                    THEN "finish" ELSE "search"
    /\ UNCHANGED <<calls, globals, args, raised, trace>>

\* Variant of the return that gives the last match found.
FinishReturnsLast ==
    /\ pc = "finish"
    /\ IF frame.matching_jobs = <<>>
         THEN /\ raised' = "ValueError"
              /\ pc' = "raised"
              /\ UNCHANGED frame
         ELSE /\ frame' = Bind(frame, "result", frame.matching_jobs[Len(frame.matching_jobs)])
              /\ pc' = "returned"
              /\ UNCHANGED raised
    /\ UNCHANGED <<calls, globals, args, trace>>

\* if not matching_jobs: raise ValueError(...); return matching_jobs[0]
Finish ==
    /\ pc = "finish"
    /\ IF frame.matching_jobs = <<>>
         THEN /\ raised' = "ValueError"
              /\ pc' = "raised"
              /\ UNCHANGED frame
         ELSE /\ frame' = Bind(frame, "result", frame.matching_jobs[1])
              /\ pc' = "returned"
              /\ UNCHANGED raised
    /\ UNCHANGED <<calls, globals, args, trace>>

get_last_job_name == Search \/ Extend \/ More \/ Finish

SpecSearch == InitSearch /\ [][get_last_job_name]_vars

\* Every request to the service is answered.
FairSearch == SpecSearch /\ WF_vars(get_last_job_name)

\* The names of the first k pages, in the service's order.
RECURSIVE NamesOfPages(_, _)
NamesOfPages(pages, k) ==
    IF k = 0 THEN <<>> ELSE NamesOfPages(pages, k - 1) \o pages[k]

StartsWithPrefix(name) == startswith(name, frame.job_name_prefix)
MatchesIn(names) == SelectSeq(names, StartsWithPrefix)
PageHasMatch(page) == MatchesIn(page) # <<>>

(***************************************************************************)
(* C24  get_last_job_name result.  A returned name starts with             *)
(* job_name_prefix and is the first such name, in the service's order,     *)
(* over the pages fetched; the call raises ValueError exactly when no name *)
(* on any page starts with the prefix.                                     *)
(***************************************************************************)
LastJobName ==
    LET fetched == NamesOfPages(globals.pages, Len(Searches))
        all == NamesOfPages(globals.pages, Len(globals.pages))
    IN  /\ pc = "returned" =>
              /\ raised = NoError
              /\ startswith(frame.result, frame.job_name_prefix)
              /\ frame.result = MatchesIn(fetched)[1]
              /\ frame.result = MatchesIn(all)[1]
        /\ pc = "raised" =>
              /\ raised = "ValueError"
              /\ ~Bound("result")
              /\ Len(Searches) = Len(globals.pages)
        /\ pc \in Terminal => (pc = "raised" <=> MatchesIn(all) = <<>>)

\* The newest job with the prefix is on the second page, ahead of an older one.
WitnessLastJobName ==
    /\ pc = "returned"
    /\ frame.job_name_prefix = <<"dpo">>
    /\ globals.pages = << << <<"my-", "dpo">> >>, << <<"dpo", "-2">>, <<"dpo", "-1">> >> >>
    /\ frame.result = <<"dpo", "-2">>
    /\ Len(Searches) = 2

(***************************************************************************)
(* C25  get_last_job_name pagination.  The first search request carries no *)
(* NextToken; every later request carries the NextToken of the response    *)
(* before it; no page is requested after a page with a name that starts    *)
(* with the prefix, nor after a response without NextToken; the loop ends. *)
(***************************************************************************)
PaginationInv ==
    /\ Searches # <<>> => "NextToken" \notin DOMAIN Searches[1].params
    /\ \A i \in 2..Len(Searches) :
          /\ "NextToken" \in DOMAIN Searches[i - 1].response
          /\ "NextToken" \in DOMAIN Searches[i].params
          /\ Searches[i].params.NextToken = Searches[i - 1].response.NextToken
          /\ ~PageHasMatch(Searches[i - 1].response.Results)
    /\ \A i \in 1..Len(Searches) : Searches[i].response.Results = globals.pages[i]
    /\ Len(Searches) <= Len(globals.pages)
    /\ (pc = "search" /\ Searches # <<>>) =>
          /\ "NextToken" \in DOMAIN Searches[Len(Searches)].response
          /\ frame.matching_jobs = <<>>
    /\ pc \in {"finish"} \cup Terminal =>
          \/ "NextToken" \notin DOMAIN Searches[Len(Searches)].response
          \/ PageHasMatch(Searches[Len(Searches)].response.Results)

Pagination == []PaginationInv /\ <>(pc \in Terminal)

\* The loop stopped at a page with a match although the response had a NextToken.
WitnessPagination ==
    /\ pc = "finish"
    /\ Len(Searches) = 1
    /\ Len(globals.pages) = 2
    /\ "NextToken" \in DOMAIN Searches[1].response
    /\ frame.matching_jobs = << <<"dpo", "-1">> >>

(***************************************************************************)
(* extract_toolcall_content (model-trainer-notebook, lines 210-243).       *)
(* A text is a sequence of pieces: the two tags, the punctuation of a JSON *)
(* list, the texts of JSON objects, plain words.  A Python value is a      *)
(* record tagged with its type.                                            *)
(***************************************************************************)
MaxTextLen == 4

OPEN == "<TOOLCALL>"
CLOSE == "</TOOLCALL>"

\* Texts of JSON objects: a call with an object as arguments, one whose
\* arguments are the JSON text of an object, one whose arguments are a text
\* that is no JSON, one without arguments.
ObjWeather == "{\"name\": \"get_weather\", \"arguments\": {\"city\": \"Paris\"}}"
ObjTime == "{\"name\": \"get_time\", \"arguments\": \"{\\\"tz\\\": \\\"UTC\\\"}\"}"
ObjBadArgs == "{\"name\": \"get_time\", \"arguments\": \"UTC\"}"
ObjNoArgs == "{\"name\": \"ping\"}"
ObjectTexts == {ObjWeather, ObjTime, ObjBadArgs, ObjNoArgs}

Str(text) == [type |-> "str", text |-> text]
Dict(items) == [type |-> "dict", items |-> items]
List(items) == [type |-> "list", items |-> items]
NoneValue == [type |-> "NoneType"]

\* json.loads of the text of one object.
json_loads_object(piece) ==
    CASE piece = ObjWeather -> [name |-> "get_weather", arguments |-> Dict([city |-> "Paris"])]
      [] piece = ObjTime -> [name |-> "get_time", arguments |-> Str("{\"tz\": \"UTC\"}")]
      [] piece = ObjBadArgs -> [name |-> "get_time", arguments |-> Str("UTC")]
      [] piece = ObjNoArgs -> [name |-> "ping"]

\* json.loads of an arguments string: defined for the text of an object only.
IsJsonArguments(text) == text = "{\"tz\": \"UTC\"}"
json_loads_arguments(text) == Dict([tz |-> "UTC"])

\* The text of a JSON list: brackets around objects separated by commas.
IsListText(g) ==
    /\ Len(g) >= 2
    /\ g[1] = "[" /\ g[Len(g)] = "]"
    /\ \/ Len(g) = 2
       \/ /\ Len(g) % 2 = 1
          /\ \A i \in 2..(Len(g) - 1) :
                IF i % 2 = 0 THEN g[i] \in ObjectTexts ELSE g[i] = ","

\* The elements json.loads returns for such a text, in order.
ListElements(g) == [i \in 1..((Len(g) - 1) \div 2) |-> json_loads_object(g[2 * i])]

IsObjectText(g) == Len(g) = 1 /\ g[1] \in ObjectTexts

\* re.search(r"<TOOLCALL>(.*?)</TOOLCALL>", text, re.DOTALL): the leftmost
\* opening tag and the nearest closing tag after it.
Contains1(text, piece) == \E i \in 1..Len(text) : text[i] = piece
FirstIndex(text, piece, from) ==
    IF \E i \in from..Len(text) : text[i] = piece
    THEN CHOOSE i \in from..Len(text) :
            text[i] = piece /\ \A j \in from..(i - 1) : text[j] # piece
    ELSE 0
Matches(text) ==
    /\ FirstIndex(text, OPEN, 1) > 0
    /\ FirstIndex(text, CLOSE, FirstIndex(text, OPEN, 1) + 1) > 0
Group1(text) ==
    SubSeq(text, FirstIndex(text, OPEN, 1) + 1,
           FirstIndex(text, CLOSE, FirstIndex(text, OPEN, 1) + 1) - 1)

\* The error the loop over tools raises at a tool call, or NoError.
ToolCallError(tool_call) ==
    IF "arguments" \notin DOMAIN tool_call THEN "KeyError"
    ELSE IF tool_call.arguments.type = "str" /\ ~IsJsonArguments(tool_call.arguments.text)
         THEN "JSONDecodeError"
    ELSE NoError

\* Variant of the entry that passes the arguments on as they are.
ToolCallEntryRaw(tool_call, id) ==
    [ type |-> "function",
      function |-> [ id |-> id, name |-> tool_call.name, parameters |-> tool_call.arguments ] ]

\* The entry appended for a tool call; id is str(uuid.uuid4())[:9].
ToolCallEntry(tool_call, id) ==
    [ type |-> "function",
      function |-> [ id |-> id,
                     name |-> tool_call.name,
                     parameters |-> IF tool_call.arguments.type = "str"
                                    THEN json_loads_arguments(tool_call.arguments.text)
                                    ELSE tool_call.arguments ] ]

Raises(error) == [raises |-> error]
Returns(found_tools, value) == [found_tools |-> found_tools, value |-> value]

\* if isinstance(text, dict): if text.get("content"): text = text.get("content")
ContentOf(text) ==
    IF /\ text.type = "dict"
       /\ "content" \in DOMAIN text.items
       /\ text.items.content # NoneValue
       /\ text.items.content # Str(<<>>)
    THEN text.items.content
    ELSE text

\* extract_toolcall_content(text); ids are the values uuid4 gives, in order.
extract_toolcall_content(input, ids) ==
    LET text == ContentOf(input)
    IN  IF text.type = "str" /\ Contains1(text.text, OPEN) /\ Contains1(text.text, CLOSE)
           /\ Matches(text.text)
        THEN LET group == Group1(text.text)
             IN  IF IsListText(group)
                 THEN LET tools == ListElements(group)
                          failing == { i \in 1..Len(tools) : ToolCallError(tools[i]) # NoError }
                      IN  IF failing # {}
                          THEN Raises(ToolCallError(
                                   tools[CHOOSE i \in failing : \A j \in failing : i <= j]))
                          ELSE Returns(TRUE, List([i \in 1..Len(tools) |->
                                                      ToolCallEntry(tools[i], ids[i])]))
                 ELSE IF IsObjectText(group) THEN Raises("TypeError")
                 ELSE Raises("JSONDecodeError")
        ELSE Returns(FALSE, text)

Uuids == {"3f2a91c0-", "b7e4d5a2-"}

TextPieces == {OPEN, CLOSE, "[", "]", ObjWeather, "Sure."}

TwoCalls == <<"Sure.", OPEN, "[", ObjWeather, ",", ObjTime, "]", CLOSE>>
ExampleTexts ==
    { TwoCalls,
      <<OPEN, "[", ObjTime, "]", CLOSE, OPEN, "[", ObjWeather, "]", CLOSE>>,
      <<OPEN, "[", ObjNoArgs, "]", CLOSE>>,
      <<OPEN, "[", ObjWeather, ",", ObjBadArgs, "]", CLOSE>> }

Texts == SeqsUpTo(TextPieces, MaxTextLen) \cup ExampleTexts

\* What callers pass: a string, a message dict with or without content, None.
ExtractInputs ==
    { Str(t) : t \in Texts }
        \cup { Dict([content |-> Str(t)]) : t \in ExampleTexts \cup {<<>>, <<"Sure.">>} }
        \cup { Dict([role |-> "assistant"]), Dict([content |-> NoneValue]), NoneValue }

NumObjects(value) ==
    IF value.type = "str"
    THEN Cardinality({ i \in 1..Len(value.text) : value.text[i] \in ObjectTexts })
    ELSE 0

InitExtract ==
    /\ pc = "extract"
    /\ calls = 1
    /\ globals = [region_info |-> region_info]
    /\ frame \in { [text |-> input] : input \in ExtractInputs }
    /\ messages = <<>>
    /\ temperature = DefaultTemperature
    /\ max_tokens = DefaultMaxTokens
    /\ top_p = DefaultTopP
    /\ max_retries = DefaultMaxRetries
    /\ raised = NoError
    /\ trace = <<>>

\* One call of extract_toolcall_content: it returns a pair or raises.
Extract ==
    /\ pc = "extract"
    /\ \E ids \in [1..NumObjects(ContentOf(frame.text)) -> Uuids] :
          LET outcome == extract_toolcall_content(frame.text, ids)
          IN  IF "raises" \in DOMAIN outcome
              THEN /\ raised' = outcome.raises
                   /\ pc' = "raised"
                   /\ UNCHANGED frame
              ELSE /\ frame' = Bind(frame, "result", outcome)
                   /\ pc' = "returned"
                   /\ UNCHANGED raised
    /\ UNCHANGED <<calls, globals, args, trace>>

SpecExtract == InitExtract /\ [][Extract]_vars

\* A string value with an opening tag and a closing tag somewhere after it.
HasToolBlock(value) ==
    /\ value.type = "str"
    /\ \E i \in 1..Len(value.text) : \E j \in (i + 1)..Len(value.text) :
          value.text[i] = OPEN /\ value.text[j] = CLOSE

\* The pieces between the first opening tag and the nearest closing tag after it.
TextBetween(t) ==
    LET i == CHOOSE i \in 1..Len(t) : t[i] = OPEN /\ \A k \in 1..(i - 1) : t[k] # OPEN
        j == CHOOSE j \in (i + 1)..Len(t) : t[j] = CLOSE /\ \A k \in (i + 1)..(j - 1) : t[k] # CLOSE
    IN  SubSeq(t, i + 1, j - 1)

\* What is read of an input: the text, or the content of a dict.
ClaimText == ContentOf(frame.text)
IsTagged == HasToolBlock(ClaimText)
Between == TextBetween(ClaimText.text)

\* The name and the arguments written in the text of an object.
NameIn(piece) ==
    CASE piece = ObjWeather -> "get_weather"
      [] piece \in {ObjTime, ObjBadArgs} -> "get_time"
      [] piece = ObjNoArgs -> "ping"
ArgumentsIn(piece) ==
    CASE piece = ObjWeather -> Dict([city |-> "Paris"])
      [] piece = ObjTime -> Dict([tz |-> "UTC"])

\* The text between the tags is a list of calls that can be decoded.
WellFormedCalls(g) ==
    /\ IsListText(g)
    /\ \A i \in 1..Len(g) : g[i] \in ObjectTexts => g[i] \in {ObjWeather, ObjTime}

EntriesAgree(g, calls_) ==
    LET pieces == SelectSeq(g, LAMBDA x : x \in ObjectTexts)
    IN  /\ calls_.type = "list"
        /\ Len(calls_.items) = Len(pieces)
        /\ \A i \in 1..Len(pieces) :
              /\ calls_.items[i].type = "function"
              /\ calls_.items[i]["function"].name = NameIn(pieces[i])
              /\ calls_.items[i]["function"].parameters = ArgumentsIn(pieces[i])
              /\ calls_.items[i]["function"].id \in Uuids

MaxSampleLen == 2

IM_START == "<|im_start|>"
IM_END == "<|im_end|>"
TOOL_CALL == "<tool_call>"
END_TOOL_CALL == "</tool_call>"

system_text == <<"You are a helpful assistant.">>

OneCall == <<OPEN, "[", ObjWeather, "]", CLOSE>>
NoJson == <<OPEN, "Sure.", CLOSE>>

\* Messages of a sample: every role, plain and tagged assistant contents, an
\* assistant message without content.
SampleMessages ==
    { [role |-> "user", content |-> Str(<<"Weather in Paris?">>)],
      [role |-> "tool", content |-> Str(<<"22C">>)],
      [role |-> "system", content |-> Str(<<"Be brief.">>)],
      [role |-> "assistant", content |-> Str(<<"Sure.">>)],
      [role |-> "assistant", content |-> Str(OneCall)],
      [role |-> "assistant", content |-> Str(NoJson)],
      [role |-> "assistant", content |-> NoneValue] }

WeatherTool == [name |-> "get_weather", description |-> "Weather of a city", parameters |-> "city"]
WeatherToolText == "{\"name\": \"get_weather\", \"description\": \"Weather of a city\", \"parameters\": \"city\"}"

SampleTools == { List(<<WeatherTool>>), Str(<<"[", WeatherToolText, "]">>), Str(<<>>), NoneValue }

ChosenResponses == { Str(TwoCalls), Str(<<"Sure.">>), Dict([content |-> Str(OneCall)]), NoneValue }
RejectedResponses == { Str(<<"Sorry.">>), Str(OneCall), Str(<<OPEN, "[", "]", CLOSE>>),
                       Dict([role |-> "assistant"]) }

Samples ==
    { [tools |-> t, messages |-> m, chosen_response |-> c, rejected_response |-> r] :
        t \in SampleTools, m \in SeqsUpTo(SampleMessages, MaxSampleLen),
        c \in ChosenResponses, r \in RejectedResponses }

\* json.loads of sample["tools"]
json_loads_tools(text) == IF text = <<"[", WeatherToolText, "]">> THEN <<WeatherTool>> ELSE <<>>

\* transform_tool_format(tool)
transform_tool_format(tool) ==
    [ type |-> "function",
      function |-> [ name |-> tool.name, description |-> tool.description,
                     parameters |-> tool.parameters ] ]

\* json.dumps({"name": ..., "parameters": ...})
json_dumps(tool_formatted) ==
    CASE tool_formatted = [name |-> "get_weather", parameters |-> Dict([city |-> "Paris"])] ->
            "{\"name\": \"get_weather\", \"parameters\": {\"city\": \"Paris\"}}"
      [] tool_formatted = [name |-> "get_time", parameters |-> Dict([tz |-> "UTC"])] ->
            "{\"name\": \"get_time\", \"parameters\": {\"tz\": \"UTC\"}}"

\* final = final + "<tool_call>\n" + json.dumps(tool_formatted) + "\n</tool_call>\n", per tool
RECURSIVE ToolBlocks(_)
ToolBlocks(tool_calls) ==
    IF tool_calls = <<>> THEN <<>>
    ELSE LET tool == tool_calls[1]
             tool_formatted == [ name |-> tool["function"].name,
                                 parameters |-> tool["function"].parameters ]
         IN  <<TOOL_CALL, NL, json_dumps(tool_formatted), NL, END_TOOL_CALL, NL>>
                 \o ToolBlocks(Tail(tool_calls))

\* Variant of the framing that writes the first tool call only.
final_text_first_tool(outcome) ==
    <<IM_START, "assistant">>
        \o (IF outcome.found_tools
            THEN ToolBlocks(SubSeq(outcome.value.items, 1, 1))
            ELSE <<NL>> \o outcome.value.text)
        \o <<IM_END>>

\* The framed text of a response: lines 312-324 for chosen, 326-338 for rejected.
final_text(outcome) ==
    <<IM_START, "assistant">>
        \o (IF outcome.found_tools
            THEN ToolBlocks(outcome.value.items)
            ELSE <<NL>> \o outcome.value.text)
        \o <<IM_END>>

\* "\n" + text raises TypeError when text is no string.
FramingRaises(outcome) == ~outcome.found_tools /\ outcome.value.type # "str"

TemplateEvent(msgs, tools) == [op |-> "apply_chat_template", messages |-> msgs, tools |-> tools]
ErrorEvent(e) == [op |-> "print", error |-> e]
MessageEvent(message) == [op |-> "print", message |-> message]

\* An exception inside the try: control goes to the except clause with e bound.
RaiseInTry(e) ==
    /\ frame' = Bind(frame, "e", e)
    /\ pc' = "except"

InitPrepare ==
    /\ pc = "tools"
    /\ calls = 1
    /\ globals = [region_info |-> region_info]
    /\ frame \in { [sample |-> sample] : sample \in Samples }
    /\ messages = <<>>
    /\ temperature = DefaultTemperature
    /\ max_tokens = DefaultMaxTokens
    /\ top_p = DefaultTopP
    /\ max_retries = DefaultMaxRetries
    /\ raised = NoError
    /\ trace = <<>>

\* tools = ...; transformed_tools = [...]; messages = [system message]
ParseTools ==
    /\ pc = "tools"
    /\ LET given == frame.sample.tools
           tools == IF given.type = "str"
                    THEN IF given.text # <<>> THEN json_loads_tools(given.text) ELSE <<>>
                    ELSE given.items
       IN  IF given.type = "NoneType"
           THEN RaiseInTry("TypeError")
           ELSE /\ frame' = Bind(Bind(Bind(frame, "tools", tools),
                                      "transformed_tools",
                                      [i \in 1..Len(tools) |-> transform_tool_format(tools[i])]),
                                 "messages",
                                 << [role |-> "system", content |-> Str(system_text)] >>)
                /\ pc' = "loop"
    /\ UNCHANGED <<calls, globals, args, raised, trace>>

\* The part of the sample's messages the loop has not reached yet.
Remaining == IF Bound("rest") THEN frame.rest ELSE frame.sample.messages
\* The message the loop appends for an assistant message of the sample.
AssistantMessage(outcome) ==
    IF outcome.found_tools
    THEN [role |-> "tool", content |-> Str(<<>>), tool_calls |-> outcome.value]
    ELSE [role |-> "assistant", content |-> outcome.value]

\* Variant of the loop body that copies the sample's tool messages.
LoopKeepsToolMessages ==
    /\ pc = "loop"
    /\ IF Remaining = <<>>
         THEN pc' = "template" /\ UNCHANGED <<frame, trace>>
         ELSE LET message == Head(Remaining)
                  next == Bind(frame, "rest", Tail(Remaining))
              IN  IF message.role \in {"user", "tool"}
                  THEN /\ frame' = Bind(next, "messages", Append(frame.messages, message))
                       /\ pc' = "loop"
                       /\ UNCHANGED trace
                  ELSE IF message.role = "assistant"
                  THEN /\ \E ids \in [1..NumObjects(ContentOf(message.content)) -> Uuids] :
                            LET outcome == extract_toolcall_content(message.content, ids)
                            IN  IF "raises" \in DOMAIN outcome
                                THEN RaiseInTry(outcome.raises)
                                ELSE /\ frame' = Bind(next, "messages",
                                                      Append(frame.messages, AssistantMessage(outcome)))
                                     /\ pc' = "loop"
                       /\ UNCHANGED trace
                  ELSE /\ frame' = next
                       /\ pc' = "loop"
                       /\ UNCHANGED trace
    /\ UNCHANGED <<calls, globals, args, raised>>

\* for message in sample.get("messages", []): one turn of the loop, or its end
Loop ==
    /\ pc = "loop"
    /\ IF Remaining = <<>>
         THEN pc' = "template" /\ UNCHANGED <<frame, trace>>
         ELSE LET message == Head(Remaining)
                  next == Bind(frame, "rest", Tail(Remaining))
              IN  IF message.role = "user"
                  THEN /\ frame' = Bind(next, "messages",
                                        Append(frame.messages,
                                               [role |-> "user", content |-> message.content]))
                       /\ pc' = "loop"
                       /\ UNCHANGED trace
                  ELSE IF message.role = "tool"
                  THEN /\ trace' = Append(trace, MessageEvent(message))
                       /\ frame' = next
                       /\ pc' = "loop"
                  ELSE IF message.role = "assistant"
                  THEN /\ \E ids \in [1..NumObjects(ContentOf(message.content)) -> Uuids] :
                            LET outcome == extract_toolcall_content(message.content, ids)
                            IN  IF "raises" \in DOMAIN outcome
                                THEN RaiseInTry(outcome.raises)
                                ELSE /\ frame' = Bind(next, "messages",
                                                      Append(frame.messages, AssistantMessage(outcome)))
                                     /\ pc' = "loop"
                       /\ UNCHANGED trace
                  ELSE /\ frame' = next
                       /\ pc' = "loop"
                       /\ UNCHANGED trace
    /\ UNCHANGED <<calls, globals, args, raised>>

\* prompt = tokenizer.apply_chat_template(messages, tools=transformed_tools, tokenize=False)
Template ==
    /\ pc = "template"
    /\ trace' = Append(trace, TemplateEvent(frame.messages, frame.transformed_tools))
    /\ frame' = Bind(frame, "prompt",
                     [template_of |-> frame.messages, tools |-> frame.transformed_tools])
    /\ pc' = "chosen"
    /\ UNCHANGED <<calls, globals, args, raised>>

\* found_tools, chosen_text = extract_toolcall_content(sample["chosen_response"]); ...
Chosen ==
    /\ pc = "chosen"
    /\ \E ids \in [1..NumObjects(ContentOf(frame.sample.chosen_response)) -> Uuids] :
          LET outcome == extract_toolcall_content(frame.sample.chosen_response, ids)
          IN  IF "raises" \in DOMAIN outcome THEN RaiseInTry(outcome.raises)
              ELSE IF FramingRaises(outcome) THEN RaiseInTry("TypeError")
              ELSE /\ frame' = Bind(Bind(Bind(frame, "found_tools", outcome.found_tools),
                                         "chosen_text", outcome.value),
                                    "final_chosen_text", final_text(outcome))
                   /\ pc' = "rejected"
    /\ UNCHANGED <<calls, globals, args, raised, trace>>

\* found_tools, rejected_text = extract_toolcall_content(sample["rejected_response"]); ...
Rejected ==
    /\ pc = "rejected"
    /\ \E ids \in [1..NumObjects(ContentOf(frame.sample.rejected_response)) -> Uuids] :
          LET outcome == extract_toolcall_content(frame.sample.rejected_response, ids)
          IN  IF "raises" \in DOMAIN outcome THEN RaiseInTry(outcome.raises)
              ELSE IF FramingRaises(outcome) THEN RaiseInTry("TypeError")
              ELSE /\ frame' = Bind(Bind(Bind(frame, "found_tools", outcome.found_tools),
                                         "rejected_text", outcome.value),
                                    "final_rejected_text", final_text(outcome))
                   /\ pc' = "return"
    /\ UNCHANGED <<calls, globals, args, raised, trace>>

\* return {"prompt": prompt, "chosen": final_chosen_text, "rejected": final_rejected_text}
Return ==
    /\ pc = "return"
    /\ frame' = Bind(frame, "result",
                     [ prompt |-> frame.prompt, chosen |-> frame.final_chosen_text,
                       rejected |-> frame.final_rejected_text ])
    /\ pc' = "returned"
    /\ UNCHANGED <<calls, globals, args, raised, trace>>

\* except Exception as e: print(f"Error: {e}"); raise e
Handler ==
    /\ pc = "except"
    /\ trace' = Append(trace, ErrorEvent(frame.e))
    /\ raised' = frame.e
    /\ pc' = "raised"
    /\ UNCHANGED <<calls, globals, args, frame>>

prepare_dataset == ParseTools \/ Loop \/ Template \/ Chosen \/ Rejected \/ Return \/ Handler

SpecPrepare == InitPrepare /\ [][prepare_dataset]_vars

IsObjectPiece(x) == x \in ObjectTexts
CallsWritten(value) == SelectSeq(TextBetween(value.text), IsObjectPiece)

\* The sample's messages that are kept: those of role user or assistant.
IsTurn(message) == message.role \in {"user", "assistant"}
Turns == SelectSeq(frame.sample.messages, IsTurn)

\* The message the template is given for a kept message of the sample.
EmittedFor(message, emitted) ==
    IF message.role = "assistant" /\ HasToolBlock(message.content)
    THEN /\ DOMAIN emitted = {"role", "content", "tool_calls"}
         /\ emitted.role = "tool"
         /\ emitted.content = Str(<<>>)
         /\ EntriesAgree(TextBetween(message.content.text), emitted.tool_calls)
    ELSE emitted = [role |-> message.role, content |-> message.content]

(***************************************************************************)
(* C27  prepare_dataset message list.  The list given to the chat template *)
(* starts with the one system message; after it come the sample's user and *)
(* assistant messages in their order; the sample's tool messages (and any  *)
(* message of another role) are left out; an assistant message with a      *)
(* TOOLCALL block becomes a message of role "tool" with empty content and  *)
(* the extracted tool_calls, any other keeps its role and content.         *)
(***************************************************************************)
TemplateMessages ==
    \A k \in 1..Len(trace) :
        trace[k].op = "apply_chat_template" =>
            LET given == trace[k].messages
            IN  /\ given = frame.messages
                /\ given = frame.prompt.template_of
                /\ given[1] = [role |-> "system", content |-> Str(system_text)]
                /\ \A i \in 2..Len(given) : given[i].role # "system"
                /\ Len(given) = Len(Turns) + 1
                /\ \A i \in 1..Len(Turns) : EmittedFor(Turns[i], given[i + 1])

WitnessTemplateMessages ==
    /\ pc = "returned"
    /\ Len(frame.sample.messages) = 2
    /\ frame.sample.messages[1].role = "tool"
    /\ frame.sample.messages[2].content = Str(OneCall)
    /\ Len(frame.prompt.template_of) = 2
    /\ frame.prompt.template_of[2].role = "tool"

\* The block written for a call of the response.
BlockFor(piece) ==
    << TOOL_CALL, NL,
       json_dumps([name |-> NameIn(piece), parameters |-> ArgumentsIn(piece)]),
       NL, END_TOOL_CALL, NL >>

Framed(final, response) ==
    LET value == ContentOf(response)
        body == SubSeq(final, 3, Len(final) - 1)
    IN  /\ Len(final) >= 3
        /\ SubSeq(final, 1, 2) = <<IM_START, "assistant">>
        /\ final[Len(final)] = IM_END
        /\ IF HasToolBlock(value)
           THEN LET written == CallsWritten(value)
                IN  /\ Len(body) = 6 * Len(written)
                    /\ \A k \in 1..Len(written) :
                          SubSeq(body, 6 * k - 5, 6 * k) = BlockFor(written[k])
           ELSE body = <<NL>> \o value.text

(***************************************************************************)
(* C28  prepare_dataset response framing.  The chosen and the rejected     *)
(* output both start with <|im_start|>assistant and end with <|im_end|>;   *)
(* between them stands one <tool_call> block per extracted tool call, in   *)
(* order, when the response holds tool calls, and otherwise a newline and  *)
(* the response text; both are built by the same rule.                     *)
(***************************************************************************)
ResponseFraming ==
    /\ Bound("final_chosen_text") =>
          Framed(frame.final_chosen_text, frame.sample.chosen_response)
    /\ Bound("final_rejected_text") =>
          Framed(frame.final_rejected_text, frame.sample.rejected_response)
    /\ pc = "returned" =>
          /\ frame.result.chosen = frame.final_chosen_text
          /\ frame.result.rejected = frame.final_rejected_text

WitnessResponseFraming ==
    /\ pc = "returned"
    /\ frame.sample.chosen_response = Str(TwoCalls)
    /\ frame.sample.rejected_response = Str(<<"Sorry.">>)
    /\ Len(frame.result.chosen) = 15
    /\ frame.result.rejected = <<IM_START, "assistant", NL, "Sorry.", IM_END>>

(***************************************************************************)
(* evaluate_agent (crewai_agent_evaluation notebook, lines 166-192).  The  *)
(* helpers of evaluation_utils are taken as functions of their arguments.  *)
(***************************************************************************)
MaxSpans == 3

SpanNames == {"crew.kickoff", "agent.execute_task", "tool.search"}
SpanLists == { List(spans) : spans \in SeqsUpTo(SpanNames, MaxSpans) } \cup {NoneValue}
MetricLists == { List(<<>>), List(<<"ToolCallAccuracyMetric">>),
                 List(<<"ToolCallAccuracyMetric", "LatencyMetric">>) }

FailureText == "\nEvaluation failed: No spans were provided."
RunningText == "\n--- Running Evaluation ---"
ScoresText == "\n--- Evaluation Scores ---"

create_trajectory(spans) == [trajectory_of |-> spans]
initialize_evaluator(metrics) == [evaluator_of |-> metrics]
evaluate(evaluator, trajectory) ==
    [type |-> "EvaluationResults", metrics |-> evaluator.evaluator_of,
     trajectory |-> trajectory]

TextEvent(text) == [op |-> "print", text |-> text]
HelperEvent(name, argument) == [op |-> name, argument |-> argument]

\* `not spans`: None and the empty list are false.
Falsy(value) == value.type = "NoneType" \/ (value.type = "list" /\ value.items = <<>>)

InitEvaluate ==
    /\ pc = "check"
    /\ calls = 1
    /\ globals = [region_info |-> region_info]
    /\ frame \in { [metrics |-> m, spans |-> sp] : m \in MetricLists, sp \in SpanLists }
    /\ messages = <<>>
    /\ temperature = DefaultTemperature
    /\ max_tokens = DefaultMaxTokens
    /\ top_p = DefaultTopP
    /\ max_retries = DefaultMaxRetries
    /\ raised = NoError
    /\ trace = <<>>

\* Variant of the check that reports the failure and goes on.
CheckSpansGoesOn ==
    /\ pc = "check"
    /\ IF Falsy(frame.spans)
         THEN /\ trace' = Append(trace, TextEvent(FailureText))
              /\ pc' = "trajectory"
         ELSE /\ pc' = "trajectory"
              /\ UNCHANGED trace
    /\ UNCHANGED <<calls, globals, args, frame, raised>>

\* if not spans: print(...); return
CheckSpans ==
    /\ pc = "check"
    /\ IF Falsy(frame.spans)
         THEN /\ trace' = Append(trace, TextEvent(FailureText))
              /\ frame' = Bind(frame, "result", NoneValue)
              /\ pc' = "returned"
         ELSE /\ pc' = "trajectory"
              /\ UNCHANGED <<frame, trace>>
    /\ UNCHANGED <<calls, globals, args, raised>>

\* trajectory = create_trajectory(spans)
CreateTrajectory ==
    /\ pc = "trajectory"
    /\ trace' = Append(trace, HelperEvent("create_trajectory", frame.spans))
    /\ frame' = Bind(frame, "trajectory", create_trajectory(frame.spans))
    /\ pc' = "evaluator"
    /\ UNCHANGED <<calls, globals, args, raised>>

\* evaluator = initialize_evaluator(metrics); print("\n--- Running Evaluation ---")
InitializeEvaluator ==
    /\ pc = "evaluator"
    /\ trace' = trace \o << HelperEvent("initialize_evaluator", frame.metrics),
                            TextEvent(RunningText) >>
    /\ frame' = Bind(frame, "evaluator", initialize_evaluator(frame.metrics))
    /\ pc' = "evaluate"
    /\ UNCHANGED <<calls, globals, args, raised>>

\* evaluator.evaluate(trajectory) is called and the coroutine waits for it
Evaluate ==
    /\ pc = "evaluate"
    /\ trace' = Append(trace, HelperEvent("evaluate", frame.trajectory))
    /\ pc' = "await"
    /\ UNCHANGED <<calls, globals, args, frame, raised>>

\* results = await ...
Resume ==
    /\ pc = "await"
    /\ frame' = Bind(frame, "results", evaluate(frame.evaluator, frame.trajectory))
    /\ pc' = "display"
    /\ UNCHANGED <<calls, globals, args, raised, trace>>

\* print("\n--- Evaluation Scores ---"); display_evaluation_results(results)
Display ==
    /\ pc = "display"
    /\ trace' = trace \o << TextEvent(ScoresText),
                            HelperEvent("display_evaluation_results", frame.results) >>
    /\ pc' = "results"
    /\ UNCHANGED <<calls, globals, args, frame, raised>>

\* return results
ReturnResults ==
    /\ pc = "results"
    /\ frame' = Bind(frame, "result", frame.results)
    /\ pc' = "returned"
    /\ UNCHANGED <<calls, globals, args, raised, trace>>

evaluate_agent ==
    CheckSpans \/ CreateTrajectory \/ InitializeEvaluator \/ Evaluate \/ Resume
        \/ Display \/ ReturnResults

SpecEvaluate == InitEvaluate /\ [][evaluate_agent]_vars

\* What an event shows: the text printed, or the helper called.
LabelOf(e) == IF e.op = "print" THEN e.text ELSE e.op
Labels == [i \in 1..Len(trace) |-> LabelOf(trace[i])]

FullRun ==
    << "create_trajectory", "initialize_evaluator", RunningText, "evaluate",
       ScoresText, "display_evaluation_results" >>

IsPrefix(a, b) == Len(a) <= Len(b) /\ SubSeq(b, 1, Len(a)) = a

====
